---- MODULE Spec2Model ----
(***************************************************************************)
(* Travel-time acquisition pipeline of the multimodal accessibility tool:  *)
(*   - the rate-limited request gate (app/requests/build_request.py),      *)
(*   - the batch scheduler run_in_batches and its three callers            *)
(*     (app/processing/travel_times/travel_computation.py),                *)
(*   - the compute endpoints (app/api/endpoints/compute.py),               *)
(*   - the network-mode point resolver                                     *)
(*     (app/processing/travel_times/async_helpers.py).                     *)
(* Each part has its own specification over the shared variables.          *)
(***************************************************************************)
EXTENDS Integers, Sequences, FiniteSets, TLC

(***************************************************************************)
(* Bounds of the model                                                     *)
(***************************************************************************)
\* number of concurrent send_request calls
NumCallers == 3
\* the clock stops after this many hundredths of a second
MaxTime == 240
\* number of task factories handed to run_in_batches in one pass
NumTasks == 3
\* largest number of journey-planner calls (legs) one task makes
MaxLegs == 1
\* per-task timeout of run_in_batches, in ticks of the batch clock
TimeoutTicks == 1
\* concurrent process_single_network_point calls, and sample points
NumResolvers == 2
NumPoints == 2
\* times the same network-mode request is issued
MaxRuns == 2
\* tasks calling store functions at the same time
NumWriters == 2
\* largest coordinate of a point given to process_and_get_travel_time, in
\* steps of CoordStep metres
MaxCoord == 4
\* largest number of candidates given to evaluate_best_candidate
MaxCands == 4
\* number of candidate sample points given to the cluster-dedup step
NumSamples == 4

(***************************************************************************)
(* Program constants.  Times are in hundredths of a second.                *)
(***************************************************************************)
\* config.py:81
RATE_LIMIT == 100
\* config.py:82
RATE_PERIOD == 60
\* build_request.py:51   MIN_SPACING = RATE_PERIOD / RATE_LIMIT + 0.05
MIN_SPACING == (RATE_PERIOD * 100) \div RATE_LIMIT + 5
\* build_request.py:234  wait_time = 0.8 - (now - last_request_time)
SPACING_WAIT == 80
\* config.py:80  asyncio.Semaphore(100); scaled down to keep the state space finite
SEMAPHORE_PERMITS == 2
\* build_request.py:49  ThreadPoolExecutor() has min(32, cpu_count + 4) worker
\* threads, always fewer than the 100 permits; scaled down like the permits
EXECUTOR_WORKERS == 1

\* travel_computation.py:265 batch_size=20 (:404 and :502 batch_size=50);
\* scaled down so that a pass has more than one batch
BATCH_SIZE == 2
\* generation.py:182  if len(points) < 4: raise ValueError
MIN_POINTS == 4
\* set_cached_nearest flushes the distance cache on every 50th insertion
FLUSH_EVERY == 50
\* request_processing.py:191  if projected_distance < 30
CLOSE_DISTANCE == 30
\* config.py:77
MAX_DESTINATIONS == 3
\* point_sampling.py:129  tree.query_pairs(r=100)
DEDUP_RADIUS == 100

\* the clock advances in quarters of the spacing wait
Quantum == SPACING_WAIT \div 4

NoTime == 0 - 1

Callers == 1..NumCallers

VARIABLES
    \* ---- request gate (build_request.py) ----
    now,                \* time.monotonic()
    last_request_time,  \* build_request.py:52
    RateLock,           \* holder of config.RateLock, 0 when free
    OJP_SEMAPHORE,      \* free permits of config.OJP_SEMAPHORE
    gpc,                \* position of each send_request call
    wakeAt,             \* deadline of the asyncio.sleep under RateLock
    post,               \* state of blocking_post of each call in the executor
    lastInit,           \* time at which the latest HTTP POST was initiated
    \* ---- batch scheduler (travel_computation.py) and its callers ----
    reqMode,            \* "network", "point" or "performance" (point mode with performance=True)
    rpc,                \* position of the compute request
    pass,               \* 1: first pass, 2: refinement pass (network mode)
    spc,                \* position of run_in_batches
    batch_i,            \* i of `for i in range(0, len(tasks), batch_size)`
    tpc,                \* state of each task created by asyncio.create_task
    tleg,               \* journey-planner calls each running task has completed
    tresult,            \* value returned by safe_await for each task
    cancelReq,          \* tasks on which p.cancel() was called before they were done
    doneQueue,          \* finished tasks that as_completed has not yet yielded
    batch_results,      \* batch_results of the current batch
    results,            \* results of run_in_batches
    abort_triggered,
    elapsed,            \* ticks since the tasks of the current batch were created
    raised429,          \* tasks in which a leg raised RateLimitExceededError
    timedOut,           \* tasks whose asyncio.wait_for ran into the timeout
    innerCancelled,     \* tasks whose inner coroutine was cancelled
    storedNew,          \* points whose result was stored in the travel cache by this request
    priorPoints,        \* points of the mode already in the travel cache
    response,           \* ComputeResponse of the request
    save_scheduled,     \* background_tasks.add_task(save_data, travel_data) was called
    travel_flushed,     \* save_data has written the travel cache to disk
    lateStores,         \* tasks that stored a point after the scheduler cancelled them
    \* ---- resolution of one network-mode point (async_helpers.py) ----
    kind,               \* class of the request's mode: "walk", "private" or "rental"
    origin,             \* random_point of each process_single_network_point call
    isochrones,         \* travel_data[mode]["isochrones"]: travel time of each origin
    rental,             \* travel_data[mode]["rental"]: ride time from the rental station
    station_rental,     \* travel_data[mode]["station_rental"]["isochrones"]: walk at the stop
    parking,            \* travel_data[mode]["parking"]["isochrones"]: walk at the stop
    distance_cache,     \* distance-cache entry of the stop, as minutes of walking
    npc,                \* position of each process_single_network_point call
    nret,               \* value each call returned
    rental_stored,      \* rental_stored of each call
    nearest,            \* whether each call has a nearest access point
    travel_time_walk,   \* travel_time_walk of each call
    presentAtStart,     \* calls whose origin was in isochrones when they began
    gateCalled,         \* calls that sent a request through the gate
    lookedUp,           \* calls that queried the R-tree index
    mutated,            \* calls that wrote to a cache
    gateCalls,          \* requests the calls of this run sent through the gate
    run,                \* how many times the network-mode request was issued
    unresolved,         \* tasks the previous run left without a travel time
    legSum,             \* sum of the legs of the trip stored for each origin
    legOrder,           \* legs each call measured, in the order of the measurements
    \* point mode
    pkind,              \* class of the point request's mode
    ppc,                \* position of point_travel_times_async
    prun,               \* how many times the point request was run
    start,              \* access station of the center (0: None)
    travel_time_start,  \* walk from the center to its access station
    remaining,          \* radial points whose task has not ended
    point_results,      \* results of run_in_batches, in completion order
    point_isochrones,   \* travel_data[mode]["point_isochrones"][center]: (point, time) pairs
    point_station_rental, \* travel_data[mode]["station_rental"]["point_isochrones"][center]
    point_parking,      \* travel_data["point_isochrones"][parking_type][center]
    before,             \* the center's pairs when the run began
    \* store functions
    TravelDataLock,     \* task holding TravelDataLock (0: free)
    DistanceCacheLock,  \* task holding DistanceCacheLock (0: free)
    wpc,                \* position of each task in its store function
    wop,                \* store function each task is in
    nested,             \* the task's save was called by set_cached_nearest
    counter,            \* DistanceCache.counter: insertions so far
    persisted,          \* insertions the distance-cache file holds
    shut,               \* shutdown_event has run
    \* ---- calls of pure functions ----
    tt_mode,            \* mode of the process_and_get_travel_time call
    tt_start,           \* start of the call: projected coordinate on a line, in metres
    tt_end,             \* end of the call
    tt_pc,              \* position of the call
    tt_result,          \* value the call returned
    tt_gate,            \* the call asked the journey planner (a gate call)
    ec_candidates,      \* candidates of the evaluate_best_candidate call
    ec_pc,              \* position of the call
    ec_result,          \* what the call returned, with the candidates it scored
    dd_points,          \* candidates of the cluster-dedup step: projected coordinates on a line
    dd_i,               \* index of the next cluster of `for cluster in clusters.values()`
    keep_points,        \* indices of the points kept so far
    dd_pc               \* position of the cluster-dedup step

gateVars == <<now, last_request_time, RateLock, OJP_SEMAPHORE, gpc, wakeAt,
              post, lastInit>>

batchVars == <<reqMode, rpc, pass, spc, batch_i, tpc, tleg, tresult, cancelReq,
               doneQueue, batch_results, results, abort_triggered, elapsed,
               raised429, timedOut, innerCancelled, storedNew, priorPoints,
               response, save_scheduled, travel_flushed, lateStores>>

resolverVars == <<kind, origin, isochrones, rental, station_rental, parking,
                  distance_cache, npc, nret, rental_stored, nearest,
                  travel_time_walk, presentAtStart, gateCalled, lookedUp,
                  mutated, gateCalls, run, unresolved, legSum,
                  legOrder>>

pointVars == <<pkind, ppc, prun, start, travel_time_start, remaining,
               point_results, point_isochrones, point_station_rental,
               point_parking, before>>
storeVars == <<TravelDataLock, DistanceCacheLock, wpc, wop, nested, counter,
               persisted, shut>>
ttVars == <<tt_mode, tt_start, tt_end, tt_pc, tt_result, tt_gate>>
ecVars == <<ec_candidates, ec_pc, ec_result>>
ddVars == <<dd_points, dd_i, keep_points, dd_pc>>
fnVars == <<ttVars, ecVars, ddVars>>
vars == <<gateVars, batchVars, resolverVars, pointVars, storeVars, fnVars>>

(***************************************************************************)
(* Request gate                                                            *)
(***************************************************************************)
GateInit ==
    /\ now = 0
    /\ last_request_time = 0
    /\ RateLock = 0
    /\ OJP_SEMAPHORE = SEMAPHORE_PERMITS
    /\ gpc = [c \in Callers |-> "idle"]
    /\ wakeAt = NoTime
    /\ post = [c \in Callers |-> "none"]
    /\ lastInit = NoTime

\* POSTs being executed by a worker thread of the executor
RunningPosts == {c \in Callers : post[c] = "running"}

\* an executor that starts a thread for every submitted call
WorkerAvailable_unbounded == TRUE

\* a worker thread of the executor is free to take a queued blocking_post
WorkerAvailable == Cardinality(RunningPosts) < EXECUTOR_WORKERS

\* a coroutine calls send_request and reaches `async with RateLock`;
\* calls are numbered in the order in which they are made
CallSendRequest(c) ==
    /\ gpc[c] = "idle"
    /\ \A d \in Callers : d < c => gpc[d] # "idle"
    /\ gpc' = [gpc EXCEPT ![c] = "waitLock"]
    /\ UNCHANGED <<now, last_request_time, RateLock, OJP_SEMAPHORE, wakeAt,
                   post, lastInit>>
    /\ UNCHANGED <<batchVars, resolverVars, pointVars, storeVars, fnVars>>

\* enforce_rate_limit up to its first suspension: take the lock, read the
\* clock, and either sleep under the lock or stamp and leave at once
enforce_rate_limit(c) ==
    /\ gpc[c] = "waitLock"
    /\ RateLock = 0
    /\ LET wait_time == SPACING_WAIT - (now - last_request_time) IN
         IF wait_time > 0
         THEN /\ RateLock' = c
              /\ wakeAt' = now + wait_time
              /\ gpc' = [gpc EXCEPT ![c] = "sleeping"]
              /\ UNCHANGED last_request_time
         ELSE /\ last_request_time' = now
              /\ gpc' = [gpc EXCEPT ![c] = "waitSem"]
              /\ UNCHANGED <<RateLock, wakeAt>>
    /\ UNCHANGED <<now, OJP_SEMAPHORE, post, lastInit>>
    /\ UNCHANGED <<batchVars, resolverVars, pointVars, storeVars, fnVars>>

\* asyncio.sleep(wait_time) is over: stamp last_request_time, release the lock
SleepDone(c) ==
    /\ gpc[c] = "sleeping"
    /\ now >= wakeAt
    /\ last_request_time' = now
    /\ RateLock' = 0
    /\ gpc' = [gpc EXCEPT ![c] = "waitSem"]
    /\ UNCHANGED <<now, OJP_SEMAPHORE, wakeAt, post, lastInit>>
    /\ UNCHANGED <<batchVars, resolverVars, pointVars, storeVars, fnVars>>

\* `async with OJP_SEMAPHORE` is entered and blocking_post is handed to the
\* executor by run_in_executor
AcquirePermit(c) ==
    /\ gpc[c] = "waitSem"
    /\ OJP_SEMAPHORE > 0
    /\ OJP_SEMAPHORE' = OJP_SEMAPHORE - 1
    /\ post' = [post EXCEPT ![c] = "queued"]
    /\ gpc' = [gpc EXCEPT ![c] = "awaitPost"]
    /\ UNCHANGED <<now, last_request_time, RateLock, wakeAt, lastInit>>
    /\ UNCHANGED <<batchVars, resolverVars, pointVars, storeVars, fnVars>>

\* a worker thread starts blocking_post: requests.post is initiated
blocking_post(c) ==
    /\ post[c] = "queued"
    /\ WorkerAvailable
    /\ post' = [post EXCEPT ![c] = "running"]
    /\ lastInit' = now
    /\ UNCHANGED <<now, last_request_time, RateLock, OJP_SEMAPHORE, gpc, wakeAt>>
    /\ UNCHANGED <<batchVars, resolverVars, pointVars, storeVars, fnVars>>

\* the remote answers and the worker thread ends its POST
PostReturns(c) ==
    /\ post[c] = "running"
    /\ post' = [post EXCEPT ![c] = "finished"]
    /\ UNCHANGED <<now, last_request_time, RateLock, OJP_SEMAPHORE, gpc,
                   wakeAt, lastInit>>
    /\ UNCHANGED <<batchVars, resolverVars, pointVars, storeVars, fnVars>>

\* requests.post raises (a requests.RequestException) in the worker thread
PostRaises(c) ==
    /\ post[c] = "running"
    /\ post' = [post EXCEPT ![c] = "failed"]
    /\ UNCHANGED <<now, last_request_time, RateLock, OJP_SEMAPHORE, gpc,
                   wakeAt, lastInit>>
    /\ UNCHANGED <<batchVars, resolverVars, pointVars, storeVars, fnVars>>

\* the awaiting coroutine gets the POST's exception, which leaves the
\* semaphore block and send_request
send_request_raises(c) ==
    /\ gpc[c] = "awaitPost"
    /\ post[c] = "failed"
    /\ OJP_SEMAPHORE' = OJP_SEMAPHORE + 1
    /\ gpc' = [gpc EXCEPT ![c] = "raised"]
    /\ UNCHANGED <<now, last_request_time, RateLock, wakeAt, post, lastInit>>
    /\ UNCHANGED <<batchVars, resolverVars, pointVars, storeVars, fnVars>>

\* the awaiting coroutine gets the POST's result, leaves the semaphore block
\* and send_request returns
send_request_returns(c) ==
    /\ gpc[c] = "awaitPost"
    /\ post[c] = "finished"
    /\ OJP_SEMAPHORE' = OJP_SEMAPHORE + 1
    /\ gpc' = [gpc EXCEPT ![c] = "returned"]
    /\ UNCHANGED <<now, last_request_time, RateLock, wakeAt, post, lastInit>>
    /\ UNCHANGED <<batchVars, resolverVars, pointVars, storeVars, fnVars>>

\* the task awaiting send_request is cancelled (timeout or abort): the
\* CancelledError unwinds the `async with` blocks; a blocking_post still in
\* the executor's queue is dropped, one that a thread is running is not
\* interrupted
CancelSendRequest_keeps_permit(c) ==
    /\ gpc[c] \in {"waitLock", "sleeping", "waitSem", "awaitPost"}
    /\ gpc' = [gpc EXCEPT ![c] = "cancelled"]
    /\ RateLock' = IF gpc[c] = "sleeping" THEN 0 ELSE RateLock
    /\ UNCHANGED OJP_SEMAPHORE
    /\ post' = IF post[c] = "queued" THEN [post EXCEPT ![c] = "none"] ELSE post
    /\ UNCHANGED <<now, last_request_time, wakeAt, lastInit>>
    /\ UNCHANGED <<batchVars, resolverVars, pointVars, storeVars, fnVars>>
CancelSendRequest(c) ==
    /\ gpc[c] \in {"waitLock", "sleeping", "waitSem", "awaitPost"}
    /\ gpc' = [gpc EXCEPT ![c] = "cancelled"]
    /\ RateLock' = IF gpc[c] = "sleeping" THEN 0 ELSE RateLock
    /\ OJP_SEMAPHORE' = IF gpc[c] = "awaitPost" THEN OJP_SEMAPHORE + 1
                        ELSE OJP_SEMAPHORE
    /\ post' = IF post[c] = "queued" THEN [post EXCEPT ![c] = "none"] ELSE post
    /\ UNCHANGED <<now, last_request_time, wakeAt, lastInit>>
    /\ UNCHANGED <<batchVars, resolverVars, pointVars, storeVars, fnVars>>

\* a step that takes no time is ready: a coroutine can take the free lock or
\* a free permit or the result of its POST, or a free worker thread can take
\* a queued POST
ReadyStep ==
    \E c \in Callers :
        \/ gpc[c] = "waitLock" /\ RateLock = 0
        \/ gpc[c] = "waitSem" /\ OJP_SEMAPHORE > 0
        \/ gpc[c] = "awaitPost" /\ post[c] \in {"finished", "failed"}
        \/ post[c] = "queued" /\ WorkerAvailable

\* time passes, once the steps that take no time have been taken
Tick ==
    /\ now < MaxTime
    /\ ~ ReadyStep
    /\ now' = now + Quantum
    /\ UNCHANGED <<last_request_time, RateLock, OJP_SEMAPHORE, gpc, wakeAt,
                   post, lastInit>>
    /\ UNCHANGED <<batchVars, resolverVars, pointVars, storeVars, fnVars>>

GateNext ==
    \/ \E c \in Callers : CallSendRequest(c)
    \/ \E c \in Callers : enforce_rate_limit(c)
    \/ \E c \in Callers : SleepDone(c)
    \/ \E c \in Callers : AcquirePermit(c)
    \/ \E c \in Callers : blocking_post(c)
    \/ \E c \in Callers : PostReturns(c)
    \/ \E c \in Callers : PostRaises(c)
    \/ \E c \in Callers : send_request_returns(c)
    \/ \E c \in Callers : send_request_raises(c)
    \/ \E c \in Callers : CancelSendRequest(c)
    \/ Tick


(***************************************************************************)
(* Python values handled by the scheduler and its callers.                 *)
(* type: "none", "str" or "tuple".  A tuple is (point, result): p is the   *)
(* point (0 for None) and rtype, n, s describe its second component        *)
(* ("none", "float" n, "tuple3" (n, modes, stations) or "str" s).          *)
(***************************************************************************)
PyNone == [type |-> "none", s |-> "", p |-> 0, rtype |-> "", n |-> 0]
PyStr(str) == [type |-> "str", s |-> str, p |-> 0, rtype |-> "", n |-> 0]
PyPair(point, rt, num, str) ==
    [type |-> "tuple", s |-> str, p |-> point, rtype |-> rt, n |-> num]

\* end of a coroutine: a returned value or a raised exception
Ret(v) == [exc |-> "", val |-> v]
Raise(e) == [exc |-> e, val |-> PyNone]

\* the strings that occur as results
ERR_TIMEOUT == "error: timeout"
ERR_CANCELLED == "error: cancelled"
ERR_MAX_RETRIES == "error: max retries"
ERR_429 == "error: 429, rate limit exceeded for the OJP API"
\* f"error: {str(e)}" for e = RateLimitExceededError("Rate limit exceeded. Exiting loop.")
ERR_STR_RATE_LIMIT == "error: Rate limit exceeded. Exiting loop."
\* f"error: {str(e)}" for e = requests.exceptions.ConnectionError and for
\* any other exception
ERR_STR_CONNECTION == "error: connection error"
ERR_STR_OTHER == "error: unexpected"
SKIP_REASON == "No valid destination found. Skipping!"

\* the errors of the responses
UNPACK_ERROR == "ValueError: too many values to unpack (expected 2)"
NOT_ENOUGH_POINTS == "Not enough data points to generate isochrones."
RATE_LIMIT_NETWORK == "Rate limit exceeded while computing network isochrones."
RATE_LIMIT_IMPROVEMENT == "Rate limit exceeded during isochrone improvement."
RATE_LIMIT_POINT == "Rate limit exceeded while computing point isochrones."
POINT_FAILED == "Point isochrone computation failed."

\* `"error: 429" in str`, over the strings above
Has_error_429(str) == str = ERR_429
\* `"429" in str`, over the strings above
Has_429(str) == str = ERR_429

\* a travel time other than 0.0
SomeMinutes == 7

Tasks == 1..NumTasks
Modes == {"network", "point", "performance"}

\* how the resolution of one point ends
Outcomes == {"resolved", "resolved0", "already", "skip_none", "skip_str",
             "RateLimitExceededError", "ConnectionError", "Exception"}
Exceptions == {"RateLimitExceededError", "ConnectionError", "Exception"}

\* the performance submode has no cache check and no skip reasons
OutcomesOf(mode) ==
    IF mode = "performance" THEN Outcomes \ {"already", "skip_str"} ELSE Outcomes

\* f"error: {str(e)}"
ErrorString(e) ==
    CASE e = "RateLimitExceededError" -> ERR_STR_RATE_LIMIT
      [] e = "ConnectionError" -> ERR_STR_CONNECTION
      [] OTHER -> ERR_STR_OTHER

\* async_helpers.process_single_network_point
process_single_network_point(out) ==
    CASE out \in Exceptions -> Raise(out)
      [] out = "already" -> Ret(PyStr("already_processed"))
      [] out = "skip_str" -> Ret(PyStr(SKIP_REASON))
      [] out = "skip_none" -> Ret(PyNone)
      [] OTHER -> Ret(PyStr("success"))

\* async_helpers.process_single_point
process_single_point(out, point) ==
    CASE out \in Exceptions -> Raise(out)
      [] out = "resolved" -> Ret(PyPair(point, "float", SomeMinutes, ""))
      [] out = "resolved0" -> Ret(PyPair(point, "float", 0, ""))
      [] OTHER -> Ret(PyPair(0, "none", 0, ""))

\* ojp_helpers.query_ojp_travel_time with parse_trip_response(full_trip=True),
\* wrapped by bind_point_with_result, which turns every Exception into a
\* (point, "error: ...") pair and lets CancelledError through
bind_point_with_result(out, point) ==
    CASE out \in Exceptions -> Ret(PyPair(point, "str", 0, ErrorString(out)))
      [] out = "resolved" -> Ret(PyPair(point, "tuple3", SomeMinutes, ""))
      [] out = "resolved0" -> Ret(PyPair(point, "float", 0, ""))
      [] OTHER -> Ret(PyPair(point, "none", 0, ""))

\* the coroutine made by the task factory of each caller
TaskFactory(mode, out, point) ==
    CASE mode = "network" -> process_single_network_point(out)
      [] mode = "point" -> process_single_point(out, point)
      [] OTHER -> bind_point_with_result(out, point)

\* run_in_batches.safe_await: the value of the task for each end of
\* asyncio.wait_for(coro, timeout)
safe_await_no_cancelled_clause(end) ==
    CASE end.exc = "" -> end.val
      [] end.exc = "TimeoutError" -> PyStr(ERR_TIMEOUT)
      [] end.exc = "ConnectionError" -> PyStr(ERR_MAX_RETRIES)
      [] end.exc = "RateLimitExceededError" -> PyStr(ERR_429)
      [] OTHER -> PyStr(ErrorString(end.exc))
safe_await(end) ==
    CASE end.exc = "" -> end.val
      [] end.exc = "TimeoutError" -> PyStr(ERR_TIMEOUT)
      [] end.exc = "CancelledError" -> PyStr(ERR_CANCELLED)
      [] end.exc = "ConnectionError" -> PyStr(ERR_MAX_RETRIES)
      [] end.exc = "RateLimitExceededError" -> PyStr(ERR_429)
      [] OTHER -> PyStr(ErrorString(end.exc))

\* abort_condition=lambda r: isinstance(r, str) and "error: 429" in r
abort_condition_or_none(r) ==
    r.type = "none" \/ (r.type = "str" /\ Has_error_429(r.s))
abort_condition(r) == r.type = "str" /\ Has_error_429(r.s)

\* tasks[i:i + batch_size]
Batch_wide(i) == {t \in Tasks : i < t /\ t <= i + BATCH_SIZE + 1}
Batch(i) == {t \in Tasks : i < t /\ t <= i + BATCH_SIZE}

NoResponse == [status |-> "", error |-> ""]

BatchInit ==
    /\ reqMode \in Modes
    /\ priorPoints \in {0, MIN_POINTS}
    /\ rpc = "begin"
    /\ pass = 1
    /\ spc = "idle"
    /\ batch_i = 0
    /\ tpc = [t \in Tasks |-> "not_started"]
    /\ tleg = [t \in Tasks |-> 0]
    /\ tresult = [t \in Tasks |-> PyNone]
    /\ cancelReq = {}
    /\ doneQueue = <<>>
    /\ batch_results = <<>>
    /\ results = <<>>
    /\ abort_triggered = FALSE
    /\ elapsed = 0
    /\ raised429 = {}
    /\ timedOut = {}
    /\ innerCancelled = {}
    /\ storedNew = 0
    /\ response = NoResponse
    /\ save_scheduled = FALSE
    /\ travel_flushed = FALSE
    /\ lateStores = {}

\* run_in_batches is called with NumTasks task factories
CallRunInBatches ==
    /\ spc' = "for_batch"
    /\ batch_i' = 0
    /\ tpc' = [t \in Tasks |-> "not_started"]
    /\ tleg' = [t \in Tasks |-> 0]
    /\ tresult' = [t \in Tasks |-> PyNone]
    /\ cancelReq' = {}
    /\ doneQueue' = <<>>
    /\ batch_results' = <<>>
    /\ results' = <<>>
    /\ abort_triggered' = FALSE
    /\ elapsed' = 0
    /\ raised429' = {}
    /\ timedOut' = {}
    /\ innerCancelled' = {}

\* the request reaches its scheduler call: at once in network mode and in
\* the performance submode, after resolve_origin_station in point mode
\* (o: the center's access station is found, is not found, or the lookup
\* runs into the rate limit)
BeginRequest(o) ==
    /\ rpc = "begin"
    /\ IF reqMode = "point" /\ o = "none"
       THEN /\ rpc' = "responded"
            /\ response' = [status |-> "failed", error |-> POINT_FAILED]
            /\ UNCHANGED <<spc, batch_i, tpc, tleg, tresult, cancelReq, doneQueue,
                           batch_results, results, abort_triggered, elapsed,
                           raised429, timedOut, innerCancelled>>
       ELSE IF reqMode = "point" /\ o = "rate_limit"
       THEN /\ rpc' = "responded"
            /\ response' = [status |-> "exception", error |-> "RateLimitExceededError"]
            /\ UNCHANGED <<spc, batch_i, tpc, tleg, tresult, cancelReq, doneQueue,
                           batch_results, results, abort_triggered, elapsed,
                           raised429, timedOut, innerCancelled>>
       ELSE /\ rpc' = "scheduling"
            /\ CallRunInBatches
            /\ UNCHANGED response
    /\ UNCHANGED <<reqMode, pass, storedNew, priorPoints>>
    /\ UNCHANGED <<save_scheduled, travel_flushed>>
    /\ UNCHANGED lateStores
    /\ UNCHANGED <<gateVars, resolverVars, pointVars, storeVars, fnVars>>

\* top of the `for i in range(0, len(tasks), batch_size)` loop: the tasks of
\* the next batch are created, or the loop is over and results is returned
StartBatch ==
    /\ spc = "for_batch"
    /\ IF batch_i < NumTasks
       THEN /\ tpc' = [t \in Tasks |-> IF t \in Batch(batch_i) THEN "running" ELSE tpc[t]]
            /\ batch_results' = <<>>
            /\ doneQueue' = <<>>
            /\ elapsed' = 0
            /\ spc' = "as_completed"
       ELSE /\ spc' = "returned"
            /\ UNCHANGED <<tpc, batch_results, doneQueue, elapsed>>
    /\ UNCHANGED <<reqMode, rpc, pass, batch_i, tleg, tresult, cancelReq, results,
                   abort_triggered, raised429, timedOut, innerCancelled,
                   storedNew, priorPoints, response>>
    /\ UNCHANGED <<save_scheduled, travel_flushed>>
    /\ UNCHANGED lateStores
    /\ UNCHANGED <<gateVars, resolverVars, pointVars, storeVars, fnVars>>

\* a task that was not cancelled and has not reached its timeout
Live(t) == tpc[t] = "running" /\ t \notin cancelReq /\ elapsed < TimeoutTicks

\* one journey-planner call of a task is answered and the task goes on
TaskLeg(t) ==
    /\ Live(t)
    /\ tleg[t] < MaxLegs
    /\ tleg' = [tleg EXCEPT ![t] = @ + 1]
    /\ UNCHANGED <<reqMode, rpc, pass, spc, batch_i, tpc, tresult, cancelReq,
                   doneQueue, batch_results, results, abort_triggered, elapsed,
                   raised429, timedOut, innerCancelled, storedNew, priorPoints,
                   response>>
    /\ UNCHANGED <<save_scheduled, travel_flushed>>
    /\ UNCHANGED lateStores
    /\ UNCHANGED <<gateVars, resolverVars, pointVars, storeVars, fnVars>>

\* the coroutine of a task ends by itself; a network-mode point that was
\* resolved has been stored in network_times by then, and a point found in
\* the cache ends before any call
TaskEnds(t, out) ==
    /\ Live(t)
    /\ out \in OutcomesOf(reqMode)
    /\ out = "already" => tleg[t] = 0
    /\ tresult' = [tresult EXCEPT ![t] = safe_await(TaskFactory(reqMode, out, t))]
    /\ tpc' = [tpc EXCEPT ![t] = "done"]
    /\ tleg' = [tleg EXCEPT ![t] = 0]
    /\ doneQueue' = Append(doneQueue, t)
    /\ raised429' = IF out = "RateLimitExceededError" THEN raised429 \cup {t}
                    ELSE raised429
    /\ storedNew' = IF reqMode = "network" /\ out \in {"resolved", "resolved0"}
                    THEN storedNew + 1 ELSE storedNew
    /\ UNCHANGED <<reqMode, rpc, pass, spc, batch_i, cancelReq,
                   batch_results, results, abort_triggered, elapsed, timedOut,
                   innerCancelled, priorPoints, response>>
    /\ UNCHANGED <<save_scheduled, travel_flushed>>
    /\ UNCHANGED lateStores
    /\ UNCHANGED <<gateVars, resolverVars, pointVars, storeVars, fnVars>>

\* asyncio.wait_for(coro, timeout) when the timeout is reached: the
\* coroutine is cancelled and TimeoutError is raised
wait_for_timeout_unwrapped == Raise("CancelledError")
wait_for_timeout == Raise("TimeoutError")

\* asyncio.wait_for runs into timeout_per_task: it cancels the coroutine and
\* raises TimeoutError into safe_await
TaskTimeout(t) ==
    /\ tpc[t] = "running"
    /\ t \notin cancelReq
    /\ elapsed >= TimeoutTicks
    /\ tresult' = [tresult EXCEPT ![t] = safe_await(wait_for_timeout)]
    /\ tpc' = [tpc EXCEPT ![t] = "done"]
    /\ tleg' = [tleg EXCEPT ![t] = 0]
    /\ doneQueue' = Append(doneQueue, t)
    /\ timedOut' = timedOut \cup {t}
    /\ innerCancelled' = innerCancelled \cup {t}
    /\ UNCHANGED <<reqMode, rpc, pass, spc, batch_i, cancelReq,
                   batch_results, results, abort_triggered, elapsed, raised429,
                   storedNew, priorPoints, response>>
    /\ UNCHANGED <<save_scheduled, travel_flushed>>
    /\ UNCHANGED lateStores
    /\ UNCHANGED <<gateVars, resolverVars, pointVars, storeVars, fnVars>>

\* the CancelledError of p.cancel() reaches the task at its suspension point
TaskCancelled(t) ==
    /\ tpc[t] = "running"
    /\ t \in cancelReq
    /\ tresult' = [tresult EXCEPT ![t] = safe_await(Raise("CancelledError"))]
    /\ tpc' = [tpc EXCEPT ![t] = "done"]
    /\ tleg' = [tleg EXCEPT ![t] = 0]
    /\ doneQueue' = Append(doneQueue, t)
    /\ innerCancelled' = innerCancelled \cup {t}
    /\ UNCHANGED <<reqMode, rpc, pass, spc, batch_i, cancelReq,
                   batch_results, results, abort_triggered, elapsed, raised429,
                   timedOut, storedNew, priorPoints, response>>
    /\ UNCHANGED <<save_scheduled, travel_flushed>>
    /\ UNCHANGED lateStores
    /\ UNCHANGED <<gateVars, resolverVars, pointVars, storeVars, fnVars>>

\* p.cancel() cancels the waiter of asyncio.wait_for; the coroutine itself
\* runs in the task wait_for made for it and is cancelled only when the
\* cancelled safe_await task takes its next step.  A coroutine whose pending
\* call was answered before that runs on first: here to its end, storing a
\* resolved network-mode point, and wait_for returns its result.  (An
\* interpreter whose wait_for awaits the coroutine in the cancelled task
\* itself gives TaskCancelled only.)
TaskEndsAfterCancel(t, out) ==
    /\ tpc[t] = "running"
    /\ t \in cancelReq
    /\ out \in OutcomesOf(reqMode) \ {"already"}
    /\ tresult' = [tresult EXCEPT ![t] = safe_await(TaskFactory(reqMode, out, t))]
    /\ tpc' = [tpc EXCEPT ![t] = "done"]
    /\ tleg' = [tleg EXCEPT ![t] = 0]
    /\ doneQueue' = Append(doneQueue, t)
    /\ raised429' = IF out = "RateLimitExceededError" THEN raised429 \cup {t}
                    ELSE raised429
    /\ storedNew' = IF reqMode = "network" /\ out \in {"resolved", "resolved0"}
                    THEN storedNew + 1 ELSE storedNew
    /\ lateStores' = IF reqMode = "network" /\ out \in {"resolved", "resolved0"}
                     THEN lateStores \cup {t} ELSE lateStores
    /\ UNCHANGED <<reqMode, rpc, pass, spc, batch_i, cancelReq,
                   batch_results, results, abort_triggered, elapsed, timedOut,
                   innerCancelled, priorPoints, response>>
    /\ UNCHANGED <<save_scheduled, travel_flushed>>
    /\ UNCHANGED <<gateVars, resolverVars, pointVars, storeVars, fnVars>>

\* time passes while tasks of the batch run
BatchTick ==
    /\ spc = "as_completed"
    /\ elapsed < TimeoutTicks
    /\ \E t \in Tasks : tpc[t] = "running"
    /\ elapsed' = elapsed + 1
    /\ UNCHANGED <<reqMode, rpc, pass, spc, batch_i, tpc, tleg, tresult,
                   cancelReq, doneQueue, batch_results, results,
                   abort_triggered, raised429, timedOut, innerCancelled,
                   storedNew, priorPoints, response>>
    /\ UNCHANGED <<save_scheduled, travel_flushed>>
    /\ UNCHANGED lateStores
    /\ UNCHANGED <<gateVars, resolverVars, pointVars, storeVars, fnVars>>

\* `for p in pending: p.cancel()`: cancel() acts on the tasks of the batch
\* that are not done
PendingToCancel_none(i) == {}
PendingToCancel(i) == {u \in Batch(i) : tpc[u] # "done"}

\* `for finished in asyncio.as_completed(pending)`: the scheduler takes the
\* result of the next finished task, appends it to batch_results and applies
\* the abort condition; on abort it cancels every task of the batch; after
\* the last result of the batch it extends results and goes to the next batch.
\* Each entry carries the task it came from next to the value.
AsCompleted ==
    /\ spc = "as_completed"
    /\ doneQueue # <<>>
    /\ LET t == Head(doneQueue)
           br == Append(batch_results, [task |-> t, val |-> tresult[t]])
       IN /\ doneQueue' = Tail(doneQueue)
          /\ batch_results' = br
          /\ IF abort_condition(tresult[t])
             THEN /\ abort_triggered' = TRUE
                  /\ cancelReq' = cancelReq \cup PendingToCancel(batch_i)
                  /\ spc' = "gather"
                  /\ UNCHANGED <<results, batch_i>>
             ELSE IF Len(br) = Cardinality(Batch(batch_i))
             THEN /\ results' = results \o br
                  /\ batch_i' = batch_i + BATCH_SIZE
                  /\ spc' = "for_batch"
                  /\ UNCHANGED <<abort_triggered, cancelReq>>
             ELSE UNCHANGED <<abort_triggered, cancelReq, spc, results, batch_i>>
    /\ UNCHANGED <<reqMode, rpc, pass, tpc, tleg, tresult, elapsed, raised429,
                   timedOut, innerCancelled, storedNew, priorPoints, response>>
    /\ UNCHANGED <<save_scheduled, travel_flushed>>
    /\ UNCHANGED lateStores
    /\ UNCHANGED <<gateVars, resolverVars, pointVars, storeVars, fnVars>>

\* `await asyncio.gather(*pending, return_exceptions=True)` is over: every
\* task of the aborted batch has ended; break out of both loops
GatherDone ==
    /\ spc = "gather"
    /\ \A u \in Batch(batch_i) : tpc[u] = "done"
    /\ results' = results \o batch_results
    /\ spc' = "returned"
    /\ UNCHANGED <<reqMode, rpc, pass, batch_i, tpc, tleg, tresult, cancelReq,
                   doneQueue, batch_results, abort_triggered, elapsed,
                   raised429, timedOut, innerCancelled, storedNew,
                   priorPoints, response>>
    /\ UNCHANGED <<save_scheduled, travel_flushed>>
    /\ UNCHANGED lateStores
    /\ UNCHANGED <<gateVars, resolverVars, pointVars, storeVars, fnVars>>

\* index of the first entry of res whose value satisfies P, Len(res) + 1 if none
FirstIdx(res, P(_)) ==
    IF \E i \in 1..Len(res) : P(res[i].val)
    THEN CHOOSE i \in 1..Len(res) :
             P(res[i].val) /\ \A j \in 1..(i - 1) : ~ P(res[j].val)
    ELSE Len(res) + 1

\* isinstance(code, str) and "error: 429" in code
IsRateLimitCode(v) == v.type = "str" /\ Has_error_429(v.s)
\* isinstance(result, str) and "429" in result, on the second component
IsRateLimitResult(v) == v.type = "tuple" /\ v.rtype = "str" /\ Has_429(v.s)
\* an entry that `for point, result in raw_results` cannot unpack
IsNotAPair(v) == v.type = "str"
\* isinstance(result, tuple) and result[0] and result[1]
IsValidPointResult(v) == v.type = "tuple" /\ v.p # 0 /\ v.rtype = "float" /\ v.n # 0

Answer(st, err, n) == [status |-> st, error |-> err, stored |-> n]

\* network_travel_times_async reads the results of run_in_batches into
\* rate_limit_flag and compute_network_isochrones answers, or generates the
\* isochrones from the points stored so far and goes on ("" as status) with
\* the refinement pass
NetworkAnswer(res, ps, points) ==
    LET rate_limit_flag == FirstIdx(res, IsRateLimitCode) <= Len(res)
    IN IF ps = 1 /\ rate_limit_flag THEN Answer("failed", RATE_LIMIT_NETWORK, 0)
       ELSE IF points < MIN_POINTS THEN Answer("exception", NOT_ENOUGH_POINTS, 0)
       ELSE IF ps = 1 THEN Answer("", "", 0)
       ELSE IF rate_limit_flag THEN Answer("partial success", RATE_LIMIT_IMPROVEMENT, 0)
       ELSE Answer("success", "", 0)

\* point_travel_times_async (performance=False) collects the valid points up
\* to the first rate-limit code and stores them for the center;
\* compute_point_isochrones answers
PointAnswer(res) ==
    LET stop == FirstIdx(res, IsRateLimitCode)
        valid_points == {i \in 1..(stop - 1) : IsValidPointResult(res[i].val)}
        rate_limit_flag == stop <= Len(res)
    IN IF rate_limit_flag
       THEN Answer("failed", RATE_LIMIT_POINT, Cardinality(valid_points))
       ELSE IF Cardinality(valid_points) < MIN_POINTS
       THEN Answer("exception", NOT_ENOUGH_POINTS, Cardinality(valid_points))
       ELSE Answer("success", "", Cardinality(valid_points))

\* point_travel_times_performance unpacks every raw result into
\* (point, result) up to the first rate-limit string; point_travel_times_async
\* stores the valid points, if any, and compute_point_isochrones answers
PerformanceAnswer(res) ==
    LET stop == FirstIdx(res, IsRateLimitResult)
        unpack_fails == FirstIdx(res, IsNotAPair) < stop
        valid_points == {i \in 1..(stop - 1) :
                            res[i].val.rtype \in {"tuple3", "float"}}
        rate_limit_flag == stop <= Len(res)
    IN IF unpack_fails THEN Answer("exception", UNPACK_ERROR, 0)
       ELSE IF valid_points = {}
       THEN IF rate_limit_flag THEN Answer("failed", RATE_LIMIT_POINT, 0)
            ELSE Answer("failed", POINT_FAILED, 0)
       ELSE IF rate_limit_flag
       THEN Answer("failed", RATE_LIMIT_POINT, Cardinality(valid_points))
       ELSE IF Cardinality(valid_points) < MIN_POINTS
       THEN Answer("exception", NOT_ENOUGH_POINTS, Cardinality(valid_points))
       ELSE Answer("success", "", Cardinality(valid_points))

SchedulerKept ==
    UNCHANGED <<spc, batch_i, tpc, tleg, tresult, cancelReq, doneQueue,
                batch_results, results, abort_triggered, elapsed, raised429,
                timedOut, innerCancelled>>

\* run_in_batches has returned to network_travel_times_async and this to
\* compute_network_isochrones
compute_network_isochrones ==
    /\ reqMode = "network"
    /\ rpc = "scheduling"
    /\ spc = "returned"
    /\ LET ans == NetworkAnswer(results, pass, priorPoints + storedNew)
       IN IF ans.status = ""
          THEN /\ pass' = 2
               /\ CallRunInBatches
               /\ UNCHANGED <<rpc, response>>
          ELSE /\ rpc' = "responded"
               /\ response' = [status |-> ans.status, error |-> ans.error]
               /\ SchedulerKept
               /\ UNCHANGED pass
    /\ save_scheduled' = TRUE
    /\ UNCHANGED <<reqMode, storedNew, priorPoints, travel_flushed>>
    /\ UNCHANGED lateStores
    /\ UNCHANGED <<gateVars, resolverVars, pointVars, storeVars, fnVars>>

\* run_in_batches has returned to point_travel_times_async and this to
\* compute_point_isochrones
compute_point_isochrones ==
    /\ reqMode = "point"
    /\ rpc = "scheduling"
    /\ spc = "returned"
    /\ LET ans == PointAnswer(results)
       IN /\ storedNew' = ans.stored
          /\ rpc' = "responded"
          /\ response' = [status |-> ans.status, error |-> ans.error]
          /\ save_scheduled' = (ans.status # "failed")
    /\ SchedulerKept
    /\ UNCHANGED <<reqMode, pass, priorPoints, travel_flushed>>
    /\ UNCHANGED lateStores
    /\ UNCHANGED <<gateVars, resolverVars, pointVars, storeVars, fnVars>>

\* run_in_batches has returned to point_travel_times_performance, this to
\* point_travel_times_async and this to compute_point_isochrones
compute_point_isochrones_performance ==
    /\ reqMode = "performance"
    /\ rpc = "scheduling"
    /\ spc = "returned"
    /\ LET ans == PerformanceAnswer(results)
       IN /\ storedNew' = ans.stored
          /\ rpc' = "responded"
          /\ response' = [status |-> ans.status, error |-> ans.error]
          /\ save_scheduled' = (ans.status = "success"
                                 \/ ans.error = NOT_ENOUGH_POINTS)
    /\ SchedulerKept
    /\ UNCHANGED <<reqMode, pass, priorPoints, travel_flushed>>
    /\ UNCHANGED lateStores
    /\ UNCHANGED <<gateVars, resolverVars, pointVars, storeVars, fnVars>>

\* the background task compute_*_isochrones added with
\* background_tasks.add_task(save_data, travel_data); FastAPI runs it after
\* the endpoint has returned its response, not after an exception
save_data ==
    /\ rpc = "responded"
    /\ save_scheduled
    /\ response.status # "exception"
    /\ ~ travel_flushed
    /\ travel_flushed' = TRUE
    /\ SchedulerKept
    /\ UNCHANGED <<reqMode, rpc, pass, storedNew, priorPoints, response,
                   save_scheduled>>
    /\ UNCHANGED lateStores
    /\ UNCHANGED <<gateVars, resolverVars, pointVars, storeVars, fnVars>>

\* lifecycle/shutdown.py: the server stops once the request and its
\* background task are over; shutdown_event saves the distance cache only
shutdown_event ==
    /\ rpc = "responded"
    /\ (save_scheduled /\ response.status # "exception") => travel_flushed
    /\ rpc' = "shutdown"
    /\ SchedulerKept
    /\ UNCHANGED <<reqMode, pass, storedNew, priorPoints, response,
                   save_scheduled, travel_flushed>>
    /\ UNCHANGED lateStores
    /\ UNCHANGED <<gateVars, resolverVars, pointVars, storeVars, fnVars>>

BatchNext ==
    \/ \E o \in {"ok", "none", "rate_limit"} : BeginRequest(o)
    \/ StartBatch
    \/ \E t \in Tasks : TaskLeg(t)
    \/ \E t \in Tasks, out \in Outcomes : TaskEnds(t, out)
    \/ \E t \in Tasks : TaskTimeout(t)
    \/ \E t \in Tasks : TaskCancelled(t)
    \/ \E t \in Tasks, out \in Outcomes : TaskEndsAfterCancel(t, out)
    \/ BatchTick
    \/ AsCompleted
    \/ GatherDone
    \/ compute_network_isochrones
    \/ compute_point_isochrones
    \/ compute_point_isochrones_performance
    \/ save_data
    \/ shutdown_event

(***************************************************************************)
(* Resolution of one network-mode point: process_single_network_point and  *)
(* the steps of network_travel_logic.py.  Several calls run interleaved at *)
(* their awaits over one travel cache.  The geography is one destination   *)
(* stop (it lies on sample point 1), one rental station near the sample    *)
(* points and one access point (parking or rental station) near the stop.  *)
(***************************************************************************)
Resolvers == 1..NumResolvers
Points == 1..NumPoints
Kinds == {"walk", "private", "rental"}
Destination == 1
RentalStation == NumPoints + 1
Nearest == NumPoints + 2

\* minutes a leg can take, and what measuring a leg can give (NoTime: None)
LegTimes == {0, SomeMinutes}
Measured == LegTimes \cup {NoTime}

NO_RENTAL_STATION == "No valid rental station found. Skipping!"
NO_NEAREST_STATION == "No valid nearest station found. Skipping point!"

ResolverInit ==
    /\ kind \in Kinds
    /\ origin \in [Resolvers -> Points]
    /\ isochrones = [p \in Points |-> NoTime]
    /\ rental = NoTime
    /\ station_rental = NoTime
    /\ parking = NoTime
    /\ distance_cache = NoTime
    /\ npc = [r \in Resolvers |-> "not_started"]
    /\ nret = [r \in Resolvers |-> PyNone]
    /\ rental_stored = [r \in Resolvers |-> FALSE]
    /\ nearest = [r \in Resolvers |-> FALSE]
    /\ travel_time_walk = [r \in Resolvers |-> NoTime]
    /\ presentAtStart = {}
    /\ gateCalled = {}
    /\ lookedUp = {}
    /\ mutated = {}
    /\ gateCalls = 0
    /\ run = 1
    /\ unresolved = 0
    /\ legSum = [p \in Points |-> NoTime]
    /\ legOrder = [r \in Resolvers |-> <<>>]

\* network_travel_logic.should_skip_point
should_skip_point_never(point, mode_isochrones) == FALSE
should_skip_point(point, mode_isochrones) == mode_isochrones[point] # NoTime

\* the distinct points of the geography lie at least CLOSE_DISTANCE apart
Apart == CLOSE_DISTANCE

\* request_processing.process_and_get_travel_time: 0.0 for equal points,
\* 1.0 for points less than 30 m apart, else what the walking network or
\* the journey planner measures
process_and_get_travel_time_far(start_point, end_point, projected_distance, measured) ==
    IF start_point = end_point THEN 0 ELSE measured
process_and_get_travel_time(start_point, end_point, projected_distance, measured) ==
    IF start_point = end_point THEN 0
    ELSE IF projected_distance < CLOSE_DISTANCE THEN 1
    ELSE measured

\* `return <value>` of process_single_network_point
ResolverReturns(r, v) ==
    /\ npc' = [npc EXCEPT ![r] = "done"]
    /\ nret' = [nret EXCEPT ![r] = v]

\* an exception leaves process_single_network_point
ResolverRaises(r) ==
    /\ npc' = [npc EXCEPT ![r] = "raised"]
    /\ UNCHANGED nret

\* process_location_request: the R-tree query, then location_ojp when the
\* query gives no destination inside the polygon (viaOJP)
LocationRequest(r, viaOJP) ==
    /\ lookedUp' = lookedUp \cup {r}
    /\ gateCalled' = IF viaOJP THEN gateCalled \cup {r} ELSE gateCalled
    /\ gateCalls' = IF viaOJP THEN gateCalls + 1 ELSE gateCalls

\* evaluate_best_candidate with compute_weighted_distance for the one
\* candidate: stored is what get_stored gives, cached the distance-cache
\* entry, rtreeFound whether get_nearest gives points, accepted whether the
\* weights keep the candidate, measured the shortest-path walk.  found: a
\* nearest point is returned; best_walking: the walking time returned;
\* written: what set_cached_nearest writes (NoTime: no call); queried:
\* get_nearest was called.
evaluate_best_candidate(stored, cached, rtreeFound, accepted, measured) ==
    LET hasStored == stored # NoTime
        useCached == ~ hasStored /\ cached # NoTime
        best_walking == IF hasStored THEN stored
                        ELSE IF useCached THEN cached ELSE NoTime
        walk_length == IF best_walking # NoTime /\ best_walking # 0
                       THEN best_walking ELSE NoTime
        hasPoints == hasStored \/ useCached \/ rtreeFound
        computes == walk_length = NoTime /\ hasPoints /\ measured # NoTime
        best_nearest == hasPoints /\ (walk_length # NoTime \/ computes)
    IN  [found |-> best_nearest /\ accepted,
         best_walking |-> best_walking,
         written |-> IF computes THEN measured ELSE NoTime,
         queried |-> ~ hasStored /\ ~ useCached]

\* the call begins: lines 105-116 of async_helpers.py
process_single_network_point_begins(r) ==
    /\ npc[r] = "not_started"
    /\ presentAtStart' = IF isochrones[origin[r]] # NoTime
                         THEN presentAtStart \cup {r} ELSE presentAtStart
    /\ IF should_skip_point(origin[r], isochrones)
       THEN ResolverReturns(r, PyStr("already_processed"))
       ELSE /\ npc' = [npc EXCEPT ![r] =
                          IF kind = "rental" THEN "resolve_rental_chain"
                          ELSE "resolve_destination_and_nearest"]
            /\ UNCHANGED nret
    /\ UNCHANGED <<kind, origin, isochrones, rental, station_rental, parking,
                   distance_cache, rental_stored, nearest, travel_time_walk,
                   gateCalled, lookedUp, mutated, gateCalls>>
    /\ UNCHANGED <<run, unresolved>>
    /\ UNCHANGED <<legSum, legOrder>>
    /\ UNCHANGED <<gateVars, batchVars, pointVars, storeVars, fnVars>>

\* resolve_rental_chain and lines 117-123; with cached rental information
\* also resolve_final_destination (it returns its arguments) and lines
\* 130-136
resolve_rental_chain(r, out, viaOJP) ==
    /\ npc[r] = "resolve_rental_chain"
    /\ out = "RateLimitExceededError" => viaOJP
    /\ LocationRequest(r, viaOJP)
    /\ IF out = "RateLimitExceededError"
       THEN /\ ResolverRaises(r)
            /\ UNCHANGED <<rental_stored, nearest, travel_time_walk>>
       ELSE IF out = "none"
       THEN /\ ResolverReturns(r, PyStr(NO_RENTAL_STATION))
            /\ UNCHANGED <<rental_stored, nearest, travel_time_walk>>
       ELSE IF rental # NoTime /\ rental # 0
       THEN /\ rental_stored' = [rental_stored EXCEPT ![r] = TRUE]
            /\ nearest' = [nearest EXCEPT ![r] = station_rental # NoTime]
            /\ travel_time_walk' = [travel_time_walk EXCEPT ![r] = station_rental]
            /\ IF station_rental = NoTime
               THEN ResolverReturns(r, PyStr(NO_NEAREST_STATION))
               ELSE /\ npc' = [npc EXCEPT ![r] =
                                  "compute_and_cache_total_travel_time"]
                    /\ UNCHANGED nret
       ELSE /\ npc' = [npc EXCEPT ![r] = "resolve_destination_and_nearest"]
            /\ UNCHANGED <<nret, rental_stored, nearest, travel_time_walk>>
    /\ UNCHANGED <<kind, origin, isochrones, rental, station_rental, parking,
                   distance_cache, presentAtStart, mutated>>
    /\ UNCHANGED <<run, unresolved>>
    /\ UNCHANGED <<legSum, legOrder>>
    /\ UNCHANGED <<gateVars, batchVars, pointVars, storeVars, fnVars>>

\* resolve_destination_and_nearest and lines 124-128; in a rental mode
\* process_location_request ends with filter_destinations, whose second
\* evaluation gets a coroutine object for the nearest points and so finds
\* nothing the first did not
resolve_destination_and_nearest(r, out, viaOJP, rtreeFound, accepted, measured) ==
    /\ npc[r] = "resolve_destination_and_nearest"
    /\ out = "RateLimitExceededError" => viaOJP
    /\ (kind # "rental" \/ out # "found") =>
           (rtreeFound /\ accepted /\ measured = NoTime)
    /\ LocationRequest(r, viaOJP)
    /\ LET best == evaluate_best_candidate(station_rental, distance_cache,
                                           rtreeFound, accepted, measured)
           filters == kind = "rental" /\ out = "found"
       IN  /\ distance_cache' = IF filters /\ best.written # NoTime
                                THEN best.written ELSE distance_cache
           /\ mutated' = IF filters /\ best.written # NoTime
                         THEN mutated \cup {r} ELSE mutated
           /\ IF out = "RateLimitExceededError"
              THEN /\ ResolverRaises(r)
                   /\ UNCHANGED <<nearest, travel_time_walk>>
              ELSE IF out = "none"
              THEN /\ ResolverReturns(r, PyStr(SKIP_REASON))
                   /\ UNCHANGED <<nearest, travel_time_walk>>
              ELSE IF filters /\ ~ best.found
              THEN /\ ResolverRaises(r)
                   /\ UNCHANGED <<nearest, travel_time_walk>>
              ELSE /\ npc' = [npc EXCEPT ![r] = "resolve_final_destination"]
                   /\ nearest' = [nearest EXCEPT ![r] = filters]
                   /\ travel_time_walk' = [travel_time_walk EXCEPT ![r] =
                          IF filters THEN best.best_walking ELSE NoTime]
                   /\ UNCHANGED nret
    /\ UNCHANGED <<kind, origin, isochrones, rental, station_rental, parking,
                   rental_stored, presentAtStart>>
    /\ UNCHANGED <<run, unresolved>>
    /\ UNCHANGED <<legSum, legOrder>>
    /\ UNCHANGED <<gateVars, batchVars, pointVars, storeVars, fnVars>>

\* resolve_final_destination and lines 130-136; for a private mode it is
\* find_valid_nearest_station
resolve_final_destination(r, rtreeFound, accepted, measured) ==
    /\ npc[r] = "resolve_final_destination"
    /\ kind # "private" => (rtreeFound /\ accepted /\ measured = NoTime)
    /\ LET best == evaluate_best_candidate(parking, distance_cache,
                                           rtreeFound, accepted, measured)
           private == kind = "private"
           found == IF private THEN best.found ELSE nearest[r]
       IN  /\ lookedUp' = IF private /\ best.queried
                          THEN lookedUp \cup {r} ELSE lookedUp
           /\ distance_cache' = IF private /\ best.written # NoTime
                                THEN best.written ELSE distance_cache
           /\ mutated' = IF private /\ best.written # NoTime
                         THEN mutated \cup {r} ELSE mutated
           /\ nearest' = [nearest EXCEPT ![r] = found]
           /\ travel_time_walk' = [travel_time_walk EXCEPT ![r] =
                  IF private THEN best.best_walking ELSE @]
           /\ IF kind # "walk" /\ ~ found
              THEN ResolverReturns(r, PyStr(NO_NEAREST_STATION))
              ELSE /\ npc' = [npc EXCEPT ![r] =
                                 "compute_and_cache_total_travel_time"]
                   /\ UNCHANGED nret
    /\ UNCHANGED <<kind, origin, isochrones, rental, station_rental, parking,
                   rental_stored, presentAtStart, gateCalled, gateCalls>>
    /\ UNCHANGED <<run, unresolved>>
    /\ UNCHANGED <<legSum, legOrder>>
    /\ UNCHANGED <<gateVars, batchVars, pointVars, storeVars, fnVars>>

\* the legs compute_and_cache_total_travel_time measures and what it stores:
\* k the mode's class, stored rental_stored, org random_point, walk the
\* travel_time_walk passed in, m_mode, m_start and m_final what measuring the
\* mode leg, the walk to the rental station and the final walk gives.
\* NoTime in travel_time: `return None`; NoTime in a cache field: no store.
TravelLegs(k, stored, org, walk, m_mode, m_start, m_final) ==
    LET current_point == IF k = "rental" /\ ~ stored THEN RentalStation ELSE org
        t_mode == IF k = "walk"
                  THEN process_and_get_travel_time(org, Destination, Apart, m_mode)
                  ELSE IF stored THEN 0
                  ELSE process_and_get_travel_time(current_point, Nearest, Apart, m_mode)
        t_start == IF k = "rental"
                   THEN process_and_get_travel_time(org, RentalStation, Apart, m_start)
                   ELSE 0
        measures == k # "walk" /\ walk = NoTime
        t_final == IF k = "walk" THEN 0
                   ELSE IF measures
                   THEN process_and_get_travel_time(Nearest, Destination, Apart, m_final)
                   ELSE walk
        ok == t_mode # NoTime /\ t_start # NoTime /\ t_final # NoTime
    IN  [travel_time |-> IF ~ ok THEN NoTime
                         ELSE t_mode + t_start + (IF measures THEN t_final ELSE 0),
         parking |-> IF ok /\ k = "private" /\ measures THEN t_final ELSE NoTime,
         rental |-> IF ok /\ k = "rental" /\ ~ stored THEN t_mode ELSE NoTime,
         station_rental |-> IF ok /\ k = "rental" /\ ~ stored
                            THEN t_final ELSE NoTime]

\* the legs the trip of compute_and_cache_total_travel_time consists of,
\* added up: the walk to the rental station, the mode leg (ride the cached
\* ride time when the rental information was stored) and the final walk
\* (the travel_time_walk passed in, or the measured one)
TripLegsSum(k, stored, ride, org, walk, m_mode, m_start, m_final) ==
    LET current_point == IF k = "rental" /\ ~ stored THEN RentalStation ELSE org
        t_mode == IF stored THEN ride
                  ELSE process_and_get_travel_time(current_point, Nearest, Apart, m_mode)
        t_start == IF k = "rental"
                   THEN process_and_get_travel_time(org, RentalStation, Apart, m_start)
                   ELSE 0
        t_final == IF walk = NoTime
                   THEN process_and_get_travel_time(Nearest, Destination, Apart, m_final)
                   ELSE walk
    IN  t_start + t_mode + t_final

\* the calls of process_and_get_travel_time that
\* compute_and_cache_total_travel_time makes, in the order it makes them:
\* the mode leg (not with stored rental information), the walk from the
\* origin to the rental station (rental modes), the final walk (when no
\* travel_time_walk was passed in); a leg that gives None ends the function
LegsMeasured_start_first(k, stored, org, walk, m_mode, m_start, m_final) ==
    LET current_point == IF k = "rental" /\ ~ stored THEN RentalStation ELSE org
        t_mode == process_and_get_travel_time(current_point, Nearest, Apart, m_mode)
        t_start == process_and_get_travel_time(org, RentalStation, Apart, m_start)
        first == IF k = "rental" THEN <<"walk_start">> ELSE <<>>
        second == IF stored THEN <<>> ELSE <<"mode">>
        third == IF walk = NoTime THEN <<"walk_final">> ELSE <<>>
    IN  IF k = "walk" THEN <<"mode">>
        ELSE IF k = "rental" /\ t_start = NoTime THEN first
        ELSE IF ~ stored /\ t_mode = NoTime THEN first \o second
        ELSE first \o second \o third
LegsMeasured(k, stored, org, walk, m_mode, m_start, m_final) ==
    LET current_point == IF k = "rental" /\ ~ stored THEN RentalStation ELSE org
        t_mode == process_and_get_travel_time(current_point, Nearest, Apart, m_mode)
        t_start == process_and_get_travel_time(org, RentalStation, Apart, m_start)
        first == IF stored THEN <<>> ELSE <<"mode">>
        second == IF k = "rental" THEN <<"walk_start">> ELSE <<>>
        third == IF walk = NoTime THEN <<"walk_final">> ELSE <<>>
    IN  IF k = "walk" THEN <<"mode">>
        ELSE IF ~ stored /\ t_mode = NoTime THEN first
        ELSE IF k = "rental" /\ t_start = NoTime THEN first \o second
        ELSE first \o second \o third

\* compute_and_cache_total_travel_time and lines 138-162: the mode leg is
\* asked of the journey planner unless the mode is walk or the rental
\* information was cached; the walks are measured on the walking network
compute_and_cache_total_travel_time(r, rate, m_mode, m_start, m_final) ==
    /\ npc[r] = "compute_and_cache_total_travel_time"
    /\ LET viaOJP == kind # "walk" /\ ~ rental_stored[r]
           legs == TravelLegs(kind, rental_stored[r], origin[r],
                              travel_time_walk[r], m_mode, m_start, m_final)
       IN  /\ rate => viaOJP
           /\ legOrder' = [legOrder EXCEPT ![r] =
                  IF rate THEN <<"mode">>
                  ELSE LegsMeasured(kind, rental_stored[r], origin[r],
                                    travel_time_walk[r], m_mode, m_start, m_final)]
           /\ gateCalled' = IF viaOJP THEN gateCalled \cup {r} ELSE gateCalled
           /\ gateCalls' = IF viaOJP THEN gateCalls + 1 ELSE gateCalls
           /\ IF rate
              THEN /\ ResolverRaises(r)
                   /\ UNCHANGED <<isochrones, rental, station_rental, parking,
                                  mutated, legSum>>
              ELSE IF legs.travel_time = NoTime
              THEN /\ ResolverReturns(r, PyNone)
                   /\ UNCHANGED <<isochrones, rental, station_rental, parking,
                                  mutated, legSum>>
              ELSE /\ ResolverReturns(r, PyStr("success"))
                   /\ parking' = IF legs.parking # NoTime
                                 THEN legs.parking ELSE parking
                   /\ rental' = IF legs.rental # NoTime
                                THEN legs.rental ELSE rental
                   /\ station_rental' = IF legs.station_rental # NoTime
                                        THEN legs.station_rental
                                        ELSE station_rental
                   /\ isochrones' = [isochrones EXCEPT ![origin[r]] =
                                        legs.travel_time]
                   /\ legSum' = [legSum EXCEPT ![origin[r]] =
                                    TripLegsSum(kind, rental_stored[r], rental,
                                                origin[r], travel_time_walk[r],
                                                m_mode, m_start, m_final)]
                   /\ mutated' = mutated \cup {r}
    /\ UNCHANGED <<kind, origin, distance_cache, rental_stored, nearest,
                   travel_time_walk, presentAtStart, lookedUp>>
    /\ UNCHANGED <<run, unresolved>>
    /\ UNCHANGED <<gateVars, batchVars, pointVars, storeVars, fnVars>>

\* the same network-mode request is issued again: network_travel_times_async
\* makes one process_single_network_point task for each of the same sampled
\* points over the travel cache the first run left (unresolved: the tasks
\* whose origin the first run left without a travel time)
Reissue ==
    /\ run < MaxRuns
    /\ \A r \in Resolvers : npc[r] \in {"done", "raised"}
    /\ run' = run + 1
    /\ unresolved' = Cardinality({r \in Resolvers : isochrones[origin[r]] = NoTime})
    /\ npc' = [r \in Resolvers |-> "not_started"]
    /\ nret' = [r \in Resolvers |-> PyNone]
    /\ rental_stored' = [r \in Resolvers |-> FALSE]
    /\ nearest' = [r \in Resolvers |-> FALSE]
    /\ travel_time_walk' = [r \in Resolvers |-> NoTime]
    /\ presentAtStart' = {}
    /\ gateCalled' = {}
    /\ lookedUp' = {}
    /\ mutated' = {}
    /\ gateCalls' = 0
    /\ legOrder' = [r \in Resolvers |-> <<>>]
    /\ UNCHANGED <<kind, origin, isochrones, rental, station_rental, parking,
                   distance_cache, legSum>>
    /\ UNCHANGED <<gateVars, batchVars, pointVars, storeVars, fnVars>>

ResolverNext ==
    \/ Reissue
    \/ \E r \in Resolvers : process_single_network_point_begins(r)
    \/ \E r \in Resolvers, out \in {"found", "none", "RateLimitExceededError"},
          viaOJP \in BOOLEAN : resolve_rental_chain(r, out, viaOJP)
    \/ \E r \in Resolvers, out \in {"found", "none", "RateLimitExceededError"},
          viaOJP \in BOOLEAN, rtreeFound \in BOOLEAN, accepted \in BOOLEAN,
          measured \in Measured :
              resolve_destination_and_nearest(r, out, viaOJP, rtreeFound,
                                              accepted, measured)
    \/ \E r \in Resolvers, rtreeFound \in BOOLEAN, accepted \in BOOLEAN,
          measured \in Measured :
              resolve_final_destination(r, rtreeFound, accepted, measured)
    \/ \E r \in Resolvers, rate \in BOOLEAN, m_mode \in Measured,
          m_start \in Measured, m_final \in Measured :
              compute_and_cache_total_travel_time(r, rate, m_mode, m_start,
                                                  m_final)

(***************************************************************************)
(* Point mode: point_travel_times_async without performance.  The access   *)
(* station of the center is resolved once, one process_single_point task   *)
(* runs for every radial point (the center is one of them), and the valid  *)
(* results are stored under the center.  The request can be run again over *)
(* the cache the run before left.                                          *)
(***************************************************************************)
Center == Destination
\* the rental station or parking nearest to the center
CenterStation == NumPoints + 3
\* the rental station nearest to a radial point
EndStation(p) == IF p = Center THEN CenterStation ELSE NumPoints + 3 + p

PointInit ==
    /\ pkind \in Kinds
    /\ ppc = "idle"
    /\ prun = 0
    /\ start = 0
    /\ travel_time_start = 0
    /\ remaining = {}
    /\ point_results = <<>>
    /\ point_isochrones = <<>>
    /\ point_station_rental = NoTime
    /\ point_parking = NoTime
    /\ before = <<>>

\* the points stored under the center
StoredPoints(entry) == {entry[i][1] : i \in 1..Len(entry)}

\* point_travel_logic.should_skip_radial_point
should_skip_radial_point(point, entry) == point \in StoredPoints(entry)

\* point_travel_logic.resolve_origin_station: stored is the rental or parking
\* entry of the center, cached its distance-cache entry, found whether a
\* station is found near the center, measured the walk to it.  start = 0:
\* `return None, 0.0, travel_data`; written: what store_closest_rental or
\* store_parking stores (NoTime: nothing).
resolve_origin_station(k, stored, cached, found, measured) ==
    LET walk == process_and_get_travel_time(Center, CenterStation, Apart, measured)
    IN  IF k = "walk"
        THEN [start |-> Center, travel_time_start |-> 0, written |-> NoTime]
        ELSE IF stored # NoTime
        THEN [start |-> CenterStation, travel_time_start |-> stored,
              written |-> NoTime]
        ELSE IF cached # NoTime
        THEN [start |-> CenterStation, travel_time_start |-> cached,
              written |-> NoTime]
        ELSE IF ~ found \/ walk = NoTime
        THEN [start |-> 0, travel_time_start |-> 0, written |-> NoTime]
        ELSE [start |-> CenterStation, travel_time_start |-> walk,
              written |-> walk]

\* point_travel_times_async up to the creation of the tasks, lines 356-400
point_travel_times_async_begins(found, measured, rate) ==
    /\ ppc \in {"idle", "stored", "failed"}
    /\ prun < MaxRuns
    /\ rate => (pkind = "rental" /\ point_station_rental = NoTime
                /\ distance_cache = NoTime)
    /\ prun' = prun + 1
    /\ before' = point_isochrones
    /\ point_results' = <<>>
    /\ LET stored == IF pkind = "rental" THEN point_station_rental
                     ELSE point_parking
           res == resolve_origin_station(pkind, stored, distance_cache, found,
                                         measured)
       IN  IF rate
           THEN /\ ppc' = "failed"
                /\ UNCHANGED <<start, travel_time_start, remaining,
                               point_station_rental, point_parking>>
           ELSE /\ start' = res.start
                /\ travel_time_start' = res.travel_time_start
                /\ point_station_rental' =
                       IF pkind = "rental" /\ res.written # NoTime
                       THEN res.written ELSE point_station_rental
                /\ point_parking' =
                       IF pkind = "private" /\ res.written # NoTime
                       THEN res.written ELSE point_parking
                /\ ppc' = IF res.start = 0 THEN "failed" ELSE "running"
                /\ remaining' = IF res.start = 0 THEN {} ELSE Points
    /\ UNCHANGED <<pkind, point_isochrones>>
    /\ UNCHANGED <<gateVars, batchVars, resolverVars, storeVars, fnVars>>

\* async_helpers.process_single_point with resolve_destination_station and
\* compute_total_point_time: found whether a rental station is found near
\* the radial point, m_end the walk to it, m_mode the mode leg
PointTotal(k, entry, origin_station, t_start, p, found, m_end, m_mode) ==
    LET destination_point == IF k = "rental" THEN EndStation(p) ELSE p
        travel_time_end ==
            IF k = "rental"
            THEN process_and_get_travel_time(p, destination_point, Apart, m_end)
            ELSE 0
        travel_time_mode ==
            process_and_get_travel_time(origin_station, destination_point, Apart, m_mode)
    IN  IF should_skip_radial_point(p, entry)
        THEN PyPair(0, "none", 0, "")
        ELSE IF k = "rental" /\ (~ found \/ travel_time_end = NoTime)
        THEN PyPair(0, "none", 0, "")
        ELSE IF travel_time_mode = NoTime
        THEN PyPair(0, "none", 0, "")
        ELSE PyPair(p, "float", travel_time_mode + t_start + travel_time_end, "")

\* one task of run_in_batches ends and its result joins the results; a
\* rate-limit error ends the run
wrapped_process_single_point(p, found, m_end, m_mode, rate) ==
    /\ ppc = "running"
    /\ p \in remaining
    /\ rate => (pkind # "walk" /\ ~ should_skip_radial_point(p, point_isochrones))
    /\ (pkind # "rental" \/ should_skip_radial_point(p, point_isochrones))
           => (found /\ m_end = NoTime)
    /\ point_results' = Append(point_results,
           IF rate THEN Ret(PyStr(ERR_429))
           ELSE Ret(PointTotal(pkind, point_isochrones, start,
                               travel_time_start, p, found, m_end, m_mode)))
    /\ remaining' = IF rate THEN {} ELSE remaining \ {p}
    /\ UNCHANGED <<pkind, ppc, prun, start, travel_time_start,
                   point_isochrones, point_station_rental, point_parking,
                   before>>
    /\ UNCHANGED <<gateVars, batchVars, resolverVars, storeVars, fnVars>>

\* the (point, time) pairs point_travel_times_async collects from the
\* results, lines 410-416
ValidPairs(res) ==
    LET stop == FirstIdx(res, IsRateLimitCode)
        IsValid(x) == IsValidPointResult(x.val)
        valid == SelectSeq(SubSeq(res, 1, stop - 1), IsValid)
    IN  [i \in 1..Len(valid) |-> <<valid[i].val.p, valid[i].val.n>>]

\* travel_data.store_point_travel_time
store_point_travel_time(entry, pairs) == pairs

\* point_travel_times_async from the results to its return, lines 410-421
point_travel_times_async_stores ==
    /\ ppc = "running"
    /\ remaining = {}
    /\ point_isochrones' = store_point_travel_time(point_isochrones,
                                                   ValidPairs(point_results))
    /\ ppc' = "stored"
    /\ UNCHANGED <<pkind, prun, start, travel_time_start, remaining,
                   point_results, point_station_rental, point_parking, before>>
    /\ UNCHANGED <<gateVars, batchVars, resolverVars, storeVars, fnVars>>

PointNext ==
    \/ \E found \in BOOLEAN, measured \in Measured, rate \in BOOLEAN :
          point_travel_times_async_begins(found, measured, rate)
    \/ \E p \in Points, found \in BOOLEAN, m_end \in Measured,
          m_mode \in Measured, rate \in BOOLEAN :
              wrapped_process_single_point(p, found, m_end, m_mode, rate)
    \/ point_travel_times_async_stores

(***************************************************************************)
(* The store functions of the travel cache and of the distance cache.      *)
(* Each is `async with <lock>:` around the mutation; asyncio.Lock is not   *)
(* reentrant.  The steps of the tasks are interleaved at every step, which *)
(* covers every interleaving the event loop can produce.                   *)
(***************************************************************************)
Writers == 1..NumWriters
TravelOps == {"store_travel_time", "store_point_travel_time", "store_parking",
              "store_closest_rental", "store_rental_station_info", "save_data"}
DistanceOps == {"set_cached_nearest", "save"}

StoreInit ==
    /\ TravelDataLock = 0
    /\ DistanceCacheLock = 0
    /\ wpc = [w \in Writers |-> "idle"]
    /\ wop = [w \in Writers |-> ""]
    /\ nested = [w \in Writers |-> FALSE]
    /\ counter = 0
    /\ persisted = 0
    /\ shut = FALSE

\* asyncio.Lock.acquire goes on without waiting only when the lock is free
LockFree_always(holder) == TRUE
LockFree(holder) == holder = 0

\* the holder of the lock a store function takes
HolderFor(op) == IF op \in DistanceOps THEN DistanceCacheLock ELSE TravelDataLock

\* a task calls a store function; distance_cache.save() is called by
\* shutdown_event, after which nothing new is called
CallStore(w, op) ==
    /\ ~ shut
    /\ wpc[w] = "idle"
    /\ wpc' = [wpc EXCEPT ![w] = "enter"]
    /\ wop' = [wop EXCEPT ![w] = op]
    /\ shut' = (op = "save")
    /\ UNCHANGED <<TravelDataLock, DistanceCacheLock, nested, counter, persisted>>
    /\ UNCHANGED <<gateVars, batchVars, resolverVars, pointVars, fnVars>>

\* `async with TravelDataLock:` / `async with DistanceCacheLock:`
AcquireLock(w) ==
    /\ wpc[w] = "enter"
    /\ LockFree(HolderFor(wop[w]))
    /\ IF wop[w] \in DistanceOps
       THEN DistanceCacheLock' = w /\ UNCHANGED TravelDataLock
       ELSE TravelDataLock' = w /\ UNCHANGED DistanceCacheLock
    /\ wpc' = [wpc EXCEPT ![w] = "body"]
    /\ UNCHANGED <<wop, nested, counter, persisted, shut>>
    /\ UNCHANGED <<gateVars, batchVars, resolverVars, pointVars, fnVars>>

\* the body of the store function and the release of its lock.
\* set_cached_nearest adds the entry, counts it, and on every FLUSH_EVERY-th
\* insertion awaits self.save() inside the body; save dumps the cache.
MutateAndRelease(w) ==
    /\ wpc[w] = "body"
    /\ IF wop[w] = "set_cached_nearest"
       THEN /\ counter' = counter + 1
            /\ IF (counter + 1) % FLUSH_EVERY = 0
               THEN /\ wop' = [wop EXCEPT ![w] = "save"]
                    /\ wpc' = [wpc EXCEPT ![w] = "enter"]
                    /\ nested' = [nested EXCEPT ![w] = TRUE]
                    /\ UNCHANGED DistanceCacheLock
               ELSE /\ wpc' = [wpc EXCEPT ![w] = "idle"]
                    /\ DistanceCacheLock' = 0
                    /\ UNCHANGED <<wop, nested>>
            /\ UNCHANGED <<TravelDataLock, persisted>>
       ELSE IF wop[w] = "save"
       THEN /\ persisted' = counter
            /\ DistanceCacheLock' = 0
            /\ wpc' = [wpc EXCEPT ![w] = "idle"]
            /\ nested' = [nested EXCEPT ![w] = FALSE]
            /\ UNCHANGED <<TravelDataLock, wop, counter>>
       ELSE /\ TravelDataLock' = 0
            /\ wpc' = [wpc EXCEPT ![w] = "idle"]
            /\ UNCHANGED <<DistanceCacheLock, wop, nested, counter, persisted>>
    /\ UNCHANGED shut
    /\ UNCHANGED <<gateVars, batchVars, resolverVars, pointVars, fnVars>>

StoreNext ==
    \/ \E w \in Writers, op \in TravelOps \cup DistanceOps : CallStore(w, op)
    \/ \E w \in Writers : AcquireLock(w)
    \/ \E w \in Writers : MutateAndRelease(w)

(***************************************************************************)
(* Calls of request_processing.process_and_get_travel_time.  The points    *)
(* lie on one line of the projected plane (EPSG:2056, metres).             *)
(***************************************************************************)
\* config.py:71
WALKING_NETWORK == TRUE
\* config.TransportModes
TransportModes == {"walk", "cycle", "escooter_rental", "bicycle_rental",
                   "self-drive-car", "car_sharing"}
CoordStep == 10
Coords == {CoordStep * k : k \in 0..MaxCoord}

\* transform(transformer.transform, start).distance(transform(..., end))
distance(a, b) == IF a < b THEN b - a ELSE a - b

TravelTimeIdle ==
    /\ tt_mode = "walk"
    /\ tt_start = 0
    /\ tt_end = 0
    /\ tt_pc = "done"
    /\ tt_result = NoTime
    /\ tt_gate = FALSE

TravelTimeInit ==
    /\ tt_mode \in TransportModes
    /\ tt_start \in Coords
    /\ tt_end \in Coords
    /\ tt_pc = "called"
    /\ tt_result = NoTime
    /\ tt_gate = FALSE

\* the call reaches query_ojp_travel_time (lines 199-207): the points are
\* neither equal nor close and the walking network does not serve the mode
AsksJourneyPlanner(start_point, end_point, projected_distance, mode) ==
    /\ start_point # end_point
    /\ projected_distance >= CLOSE_DISTANCE
    /\ ~ (WALKING_NETWORK /\ mode = "walk")

\* one call of process_and_get_travel_time; measured is what
\* estimated_walking_time or query_ojp_travel_time gives (NoTime: None)
process_and_get_travel_time_call(measured) ==
    /\ tt_pc = "called"
    /\ tt_pc' = "done"
    /\ tt_result' = process_and_get_travel_time(tt_start, tt_end,
                        distance(tt_start, tt_end), measured)
    /\ tt_gate' = AsksJourneyPlanner(tt_start, tt_end,
                                     distance(tt_start, tt_end), tt_mode)
    /\ UNCHANGED <<tt_mode, tt_start, tt_end>>
    /\ UNCHANGED <<ecVars, ddVars>>
    /\ UNCHANGED <<gateVars, batchVars, resolverVars, pointVars, storeVars>>

TravelTimeNext ==
    \E measured \in Measured : process_and_get_travel_time_call(measured)

(***************************************************************************)
(* Calls of candidate_selection.evaluate_best_candidate.  Candidate i is   *)
(* destination i with access station i; walk is the walking time that      *)
(* get_stored or the distance cache gives for it (NoTime: None) and score  *)
(* its weighted distance (NoScore: the candidate is skipped by one of the  *)
(* two `continue` statements).                                             *)
(***************************************************************************)
NoScore == 0 - 1
Scores == {NoScore, 0, 1, 2}
\* float("inf")
Infinity == 99
WalkTimes == {NoTime, 3, SomeMinutes}
Candidate == [score : Scores, walk : WalkTimes]
CandidateLists == UNION {[1..n -> Candidate] : n \in 1..MaxCands}

NoResult == [best_destination |-> 0, best_nearest |-> 0, best_walking |-> NoTime,
             best_weighted_distance |-> Infinity, processed_destinations |-> 0,
             scored |-> {}]

\* the `for dest, modes in candidates` loop from candidate i on; st holds the
\* local variables (0: None) and the candidates scored so far
RECURSIVE evaluate_best_candidate_loop(_, _, _)
evaluate_best_candidate_loop(candidates, i, st) ==
    IF i > Len(candidates) \/ st.processed_destinations >= MAX_DESTINATIONS
    THEN st
    ELSE LET c == candidates[i]
             \* nearest_points, best_walking = get_stored(dest), or the
             \* time from the distance cache
             looked == [st EXCEPT !.best_walking = c.walk]
         IN  IF c.score = NoScore
             THEN evaluate_best_candidate_loop(candidates, i + 1, looked)
             ELSE LET better == c.score < looked.best_weighted_distance
                      \* best_destination, best_nearest, best_walking =
                      \*     dest, nearest, best_walking
                      taken == [looked EXCEPT
                                   !.best_weighted_distance =
                                       IF better THEN c.score ELSE @,
                                   !.best_destination = IF better THEN i ELSE @,
                                   !.best_nearest = IF better THEN i ELSE @,
                                   !.scored = @ \cup {i}]
                  IN  IF taken.best_weighted_distance = 0 THEN taken
                      ELSE evaluate_best_candidate_loop(candidates, i + 1,
                               [taken EXCEPT !.processed_destinations = @ + 1])

CandidatesIdle ==
    /\ ec_candidates = <<>>
    /\ ec_pc = "done"
    /\ ec_result = NoResult

CandidatesInit ==
    /\ ec_candidates \in CandidateLists
    /\ ec_pc = "called"
    /\ ec_result = NoResult

\* one call of evaluate_best_candidate
evaluate_best_candidate_call ==
    /\ ec_pc = "called"
    /\ ec_pc' = "done"
    /\ ec_result' = evaluate_best_candidate_loop(ec_candidates, 1, NoResult)
    /\ UNCHANGED ec_candidates
    /\ UNCHANGED <<ttVars, ddVars>>
    /\ UNCHANGED <<gateVars, batchVars, resolverVars, pointVars, storeVars>>

CandidatesNext == evaluate_best_candidate_call

(***************************************************************************)
(* The cluster-dedup step of generate_adaptive_sample_points.  The         *)
(* candidates lie on one line of the projected plane, SampleStep metres    *)
(* or a multiple of it apart.                                              *)
(***************************************************************************)
SampleStep == 60
SamplePositions == {SampleStep * k : k \in 0..(NumSamples + 1)}
Samples == 1..NumSamples

\* tree.query_pairs(r=100): the points at most r apart
Close(pts, i, j) == i # j /\ distance(pts[i], pts[j]) <= DEDUP_RADIUS

\* clusters[i] after the `for i, j in pairs` loop
clusters(pts, i) == {i} \cup {j \in DOMAIN pts : Close(pts, i, j)}

DedupIdle ==
    /\ dd_points = <<>>
    /\ dd_i = 1
    /\ keep_points = {}
    /\ dd_pc = "returned"

\* keep_points = set(range(len(valid_points)))
DedupInit ==
    /\ dd_points \in {pts \in [Samples -> SamplePositions] :
                            \A i, j \in Samples : i # j => pts[i] # pts[j]}
    /\ dd_i = 1
    /\ keep_points = Samples
    /\ dd_pc = "clusters"

\* one pass of `for cluster in clusters.values()`; choice is what
\* np.random.choice(list(cluster)) gives
dedup_cluster(choice) ==
    /\ dd_pc = "clusters"
    /\ dd_i <= Len(dd_points)
    /\ LET cluster == clusters(dd_points, dd_i)
       IN  /\ choice \in cluster
           /\ keep_points' = IF Cardinality(cluster) > 1
                             THEN (keep_points \ cluster) \cup {choice}
                             ELSE keep_points
    /\ dd_i' = dd_i + 1
    /\ UNCHANGED <<dd_points, dd_pc>>
    /\ UNCHANGED <<ttVars, ecVars>>
    /\ UNCHANGED <<gateVars, batchVars, resolverVars, pointVars, storeVars>>

\* final_points = valid_points[list(keep_points)]
dedup_returns ==
    /\ dd_pc = "clusters"
    /\ dd_i > Len(dd_points)
    /\ dd_pc' = "returned"
    /\ UNCHANGED <<dd_points, dd_i, keep_points>>
    /\ UNCHANGED <<ttVars, ecVars>>
    /\ UNCHANGED <<gateVars, batchVars, resolverVars, pointVars, storeVars>>

DedupNext ==
    \/ \E choice \in Samples : dedup_cluster(choice)
    \/ dedup_returns

FnIdle == TravelTimeIdle /\ CandidatesIdle /\ DedupIdle

(***************************************************************************)
(* Specifications                                                          *)
(***************************************************************************)
\* the scheduler and the compute request alone
BatchIdle ==
    /\ BatchInit
    /\ reqMode = "network"
    /\ priorPoints = 0

\* no point is being resolved
ResolverIdle ==
    /\ ResolverInit
    /\ kind = "walk"
    /\ origin = [r \in Resolvers |-> 1]

\* no point request is running
PointIdle ==
    /\ PointInit
    /\ pkind = "walk"

\* the request gate under concurrent send_request calls
InitGate == GateInit /\ BatchIdle /\ ResolverIdle /\ PointIdle /\ StoreInit /\ FnIdle
SpecGate == InitGate /\ [][GateNext]_vars

\* one compute request with its scheduler runs
InitBatch == GateInit /\ BatchInit /\ ResolverIdle /\ PointIdle /\ StoreInit /\ FnIdle
SpecBatch == InitBatch /\ [][BatchNext]_vars

\* concurrent resolutions of network-mode points over one travel cache
InitResolver == GateInit /\ BatchIdle /\ ResolverInit /\ PointIdle /\ StoreInit /\ FnIdle
SpecResolver == InitResolver /\ [][ResolverNext]_vars

\* runs of one point-mode request over one travel cache
InitPoint == GateInit /\ BatchIdle /\ ResolverIdle /\ PointInit /\ StoreInit /\ FnIdle
SpecPoint == InitPoint /\ [][PointNext]_vars

\* tasks calling the store functions of the two caches
InitStore == GateInit /\ BatchIdle /\ ResolverIdle /\ PointIdle /\ StoreInit /\ FnIdle
SpecStore == InitStore /\ [][StoreNext]_vars

\* calls of process_and_get_travel_time over all modes and point pairs
InitTravelTime ==
    /\ GateInit /\ BatchIdle /\ ResolverIdle /\ PointIdle /\ StoreInit
    /\ TravelTimeInit /\ CandidatesIdle /\ DedupIdle
SpecTravelTime == InitTravelTime /\ [][TravelTimeNext]_vars

\* calls of evaluate_best_candidate over all candidate lists
InitCandidates ==
    /\ GateInit /\ BatchIdle /\ ResolverIdle /\ PointIdle /\ StoreInit
    /\ TravelTimeIdle /\ CandidatesInit /\ DedupIdle
SpecCandidates == InitCandidates /\ [][CandidatesNext]_vars

\* the cluster-dedup step over all candidate sets and random choices
InitDedup ==
    /\ GateInit /\ BatchIdle /\ ResolverIdle /\ PointIdle /\ StoreInit
    /\ TravelTimeIdle /\ CandidatesIdle /\ DedupInit
SpecDedup == InitDedup /\ [][DedupNext]_vars

(***************************************************************************)
(* Properties of the request gate                                          *)
(***************************************************************************)
\* C1: at every instant at most K (the number of semaphore permits) HTTP
\* POSTs to the journey planner are in flight, counting the POSTs whose
\* awaiting task was cancelled while a worker thread was running them.
ConcurrencyBound == Cardinality(RunningPosts) <= SEMAPHORE_PERMITS

\* a cancelled call's POST is still running in its thread, its permit is
\* back in the semaphore, and another call holds a permit
OrphanPostWhilePermitHeld ==
    \E c, d \in Callers :
        /\ gpc[c] = "cancelled" /\ post[c] = "running"
        /\ gpc[d] = "awaitPost"
        /\ OJP_SEMAPHORE = SEMAPHORE_PERMITS - 1

\* C2: the HTTP requests of any two consecutive outbound calls are
\* initiated at least MIN_SPACING apart.
InitiationSpacing ==
    [][(lastInit # NoTime /\ \E c \in Callers :
            post[c] = "queued" /\ post'[c] = "running")
        => now - lastInit >= MIN_SPACING]_vars


(***************************************************************************)
(* Properties of the scheduler and of the compute request                  *)
(***************************************************************************)

\* C3: whenever a task whose leg raised RateLimitExceededError has had its
\* result taken by the scheduler, the abort predicate has fired and the batch
\* is aborted, in all three modes.
RateLimitAborts ==
    \A i \in 1..Len(batch_results) :
        batch_results[i].task \in raised429 => abort_triggered

\* C4: once the abort predicate has fired, every task of the current batch
\* has ended or has been cancelled, and no task of a later batch is started.
AbortCancelsPending ==
    abort_triggered =>
        /\ \A u \in Batch(batch_i) : tpc[u] = "done" \/ u \in cancelReq
        /\ \A u \in Tasks : u > batch_i + BATCH_SIZE => tpc[u] = "not_started"

AbortWithPendingAndLaterBatch ==
    /\ abort_triggered
    /\ \E u \in cancelReq : tpc[u] = "running"
    /\ \E u \in Tasks : u > batch_i + BATCH_SIZE /\ tpc[u] = "not_started"

\* C5 as stated: after an abort, every task of the batch whose result the
\* scheduler had not taken returns 'error: cancelled'.
UnobservedReturnCancelled ==
    (abort_triggered /\ spc = "returned") =>
        \A u \in Batch(batch_i) :
            (\A i \in 1..Len(batch_results) : batch_results[i].task # u)
                => tresult[u] = PyStr(ERR_CANCELLED)

\* C5, amended: after an abort, every task of the batch that the
\* cancellation interrupted returns 'error: cancelled'; a task that had
\* finished when the abort predicate fired, or that ran to its end before
\* the cancellation reached its coroutine, keeps its result; no result of a
\* cancelled task is added to results, and no new batch starts.
UnfinishedReturnCancelled ==
    (abort_triggered /\ spc = "returned") =>
        /\ \A u \in cancelReq \cap innerCancelled :
               tresult[u] = PyStr(ERR_CANCELLED)
        /\ \A u \in Batch(batch_i) \ cancelReq :
               tresult[u] # PyStr(ERR_CANCELLED)
        /\ \A i \in 1..Len(results) : results[i].task \notin cancelReq
        /\ \A u \in Tasks : u > batch_i + BATCH_SIZE => tpc[u] = "not_started"

AbortedWithCancelledTask ==
    /\ abort_triggered
    /\ spc = "returned"
    /\ \E u \in cancelReq : tresult[u] = PyStr(ERR_CANCELLED)

\* C6: at most batch_size tasks are started and unfinished, and a task of a
\* later batch is started only when every task of the earlier batches has
\* ended.
BatchBound ==
    /\ Cardinality({t \in Tasks : tpc[t] = "running"}) <= BATCH_SIZE
    /\ \A t, u \in Tasks :
           (/\ (t - 1) \div BATCH_SIZE < (u - 1) \div BATCH_SIZE
            /\ tpc[u] # "not_started")
               => tpc[t] = "done"

SecondBatchRunning ==
    /\ tpc[NumTasks] = "running"
    /\ tpc[1] = "done"
    /\ \E i \in 1..Len(results) : results[i].task = 1

TimeoutIsPerPointSkip ==
    (rpc = "responded" /\ spc = "returned") =>
        LET rest == SelectSeq(results, LAMBDA e : e.val # PyStr(ERR_TIMEOUT))
            ans == CASE reqMode = "network" ->
                            NetworkAnswer(rest, pass, priorPoints + storedNew)
                     [] reqMode = "point" -> PointAnswer(rest)
                     [] OTHER -> PerformanceAnswer(rest)
        IN response = [status |-> ans.status, error |-> ans.error]

\* C9: a request whose scheduler run was aborted by a rate-limit result is
\* answered "partial success" if a point result exists and "failed" if none
\* exists.
RateLimitStatus ==
    (rpc = "responded" /\ abort_triggered) =>
        LET existing == IF reqMode = "network" THEN priorPoints + storedNew
                        ELSE storedNew
        IN response.status = IF existing >= 1 THEN "partial success"
                             ELSE "failed"


(***************************************************************************)
(* Properties of the resolution of a network-mode point                    *)
(***************************************************************************)

\* C10: a call whose origin was in network_times[mode] when it began returns
\* 'already_processed' and has sent nothing through the gate, queried no
\* spatial index and written to no cache.
CachedPointShortCircuits ==
    \A r \in presentAtStart :
        /\ npc[r] = "done"
        /\ nret[r] = PyStr("already_processed")
        /\ r \notin gateCalled \cup lookedUp \cup mutated

CachedPointSkippedAfterStore ==
    \E r, q \in Resolvers :
        /\ r \in presentAtStart
        /\ nret[r] = PyStr("already_processed")
        /\ q \in mutated /\ q \in gateCalled /\ q \in lookedUp
        /\ origin[q] = origin[r]
        /\ nret[q] = PyStr("success")

\* C11: re-issuing the same network-mode request over the cache the first
\* run left sends no more requests through the gate than the number of origin
\* points the first run left unresolved.
RemoteCallsBounded == run > 1 => gateCalls <= unresolved

\* C13: after a network-mode point was resolved with 'success', the sub-leg
\* cache entries its total is made of are present: the ride of the rental
\* station and the rental entry of the destination for a rental mode, the
\* parking entry of the destination for a private mode.
SubLegCachesPresent ==
    \A r \in Resolvers :
        (npc[r] = "done" /\ nret[r] = PyStr("success")) =>
            /\ kind = "rental" => (rental # NoTime /\ station_rental # NoTime)
            /\ kind = "private" => parking # NoTime

\* C12: after a center was run again, its stored pairs begin with the pairs
\* stored before the run, in the same order, and go on only with points that
\* were absent before.
RerunKeepsStoredPairs ==
    (ppc = "stored" /\ prun > 1) =>
        /\ Len(before) <= Len(point_isochrones)
        /\ SubSeq(point_isochrones, 1, Len(before)) = before
        /\ \A i \in (Len(before) + 1)..Len(point_isochrones) :
               point_isochrones[i][1] \notin StoredPoints(before)

\* C14: in each scope (network and point) a station_rental entry of a rental
\* mode comes with a rental_ride entry of that mode whose destination is the
\* key of the station_rental entry.
StationRentalHasRide ==
    /\ station_rental # NoTime => rental # NoTime
    /\ point_station_rental # NoTime => rental # NoTime

\* C15: every stored travel time is a non-negative finite number, and an
\* entry whose origin is its destination (a network-mode origin that lies on
\* its destination, the center among its own radial points) stores 0.
StoredTimesSound ==
    /\ \A p \in Points : isochrones[p] # NoTime => isochrones[p] \in Nat
    /\ \A t \in {rental, station_rental, parking, point_station_rental,
                  point_parking} : t # NoTime => t \in Nat
    /\ \A i \in 1..Len(point_isochrones) : point_isochrones[i][2] \in Nat
    /\ isochrones[Destination] \in {NoTime, 0}
    /\ \A i \in 1..Len(point_isochrones) :
           point_isochrones[i][1] = Center => point_isochrones[i][2] = 0

\* C16: after every 50th insertion into the distance cache the flush
\* completes and the inserting call returns: the call that reaches the flush
\* is never left waiting for DistanceCacheLock while holding it itself.
FlushReturns ==
    \A w \in Writers :
        (wpc[w] = "enter" /\ wop[w] = "save" /\ nested[w]) => DistanceCacheLock # w

\* C18: a task inside the mutation of a cache holds that cache's lock, and no
\* two tasks are inside a mutation of the same cache at the same time.
MutationsUnderLock ==
    /\ \A w \in Writers : wpc[w] = "body" => HolderFor(wop[w]) = w
    /\ \A w, v \in Writers :
           (w # v /\ wpc[w] = "body" /\ wpc[v] = "body") =>
               (wop[w] \in DistanceOps) # (wop[v] \in DistanceOps)

\* one task is inside store_travel_time and another waits to enter
\* store_parking
WriterWaitsForWriter ==
    \E w, v \in Writers :
        /\ wpc[w] = "body" /\ wop[w] = "store_travel_time"
        /\ wpc[v] = "enter" /\ wop[v] = "store_parking"
        /\ TravelDataLock = w

\* C17: a flush of the travel cache is scheduled when a compute request
\* completes, whatever its status (success, partial success, failed), and the
\* travel cache has been flushed when the server has shut down.
TravelCacheFlushed ==
    /\ (rpc \in {"responded", "shutdown"}
        /\ response.status \in {"success", "partial success", "failed"})
           => save_scheduled
    /\ rpc = "shutdown" => travel_flushed

\* C19: a task the scheduler has cancelled performs no mutation of the travel
\* cache or of the distance cache after its cancellation.
CancelledTaskStoresNothing == lateStores = {}

\* C20: when a task is cancelled while its HTTP call is in flight inside the
\* gate, the call is aborted: no POST issued for a cancelled call is running.
CancelledPostAborted ==
    \A c \in Callers : gpc[c] = "cancelled" => post[c] # "running"

\* C21: in network mode a point whose resolution returns None is skipped
\* without a fatal error: the task that returns None stores no travel time,
\* the abort fires only on a rate-limit result, and without an abort every
\* batch runs.
NoneLegSkipsPoint ==
    /\ [](reqMode = "network" =>
            /\ abort_triggered =>
                   \E i \in 1..Len(batch_results) :
                       batch_results[i].val = PyStr(ERR_429)
            /\ (spc = "returned" /\ ~ abort_triggered) => Len(results) = NumTasks)
    /\ [][\A t \in Tasks :
             (reqMode = "network" /\ tpc[t] = "running" /\ tpc'[t] = "done"
                 /\ tresult'[t] = PyNone) => storedNew' = storedNew]_vars

\* a network-mode run has returned without abort; a point of the first batch
\* was skipped with None and a point of a later batch was resolved
NonePointThenLaterBatch ==
    /\ reqMode = "network" /\ spc = "returned" /\ ~ abort_triggered
    /\ \E i, j \in 1..Len(results) :
           /\ results[i].val = PyNone /\ results[i].task <= BATCH_SIZE
           /\ results[j].val = PyStr("success") /\ results[j].task > BATCH_SIZE

\* C22: for every transport mode process_and_get_travel_time returns 0.0
\* when start and end are the same point and 1.0 when they differ but lie
\* less than 30 m apart, and in both cases makes no gate call.
CloseOrSameNeedsNoCall ==
    tt_pc = "done" =>
        /\ tt_start = tt_end => (tt_result = 0 /\ ~ tt_gate)
        /\ (tt_start # tt_end /\ distance(tt_start, tt_end) < CLOSE_DISTANCE) =>
               (tt_result = 1 /\ ~ tt_gate)

\* a call for a journey-planner mode between two points 20 m apart has returned
ClosePointsCallDone ==
    /\ tt_pc = "done" /\ tt_mode = "car_sharing"
    /\ tt_start # tt_end /\ distance(tt_start, tt_end) = 2 * CoordStep

\* C23: in network mode the time stored for an origin in a non-walk mode is
\* the sum of the trip's legs (walk to the rental station, ride, final walk),
\* with freshly measured legs and with legs taken from the cache.
StoredTotalIsSumOfLegs ==
    kind # "walk" =>
        \A p \in Points : legSum[p] # NoTime => isochrones[p] = legSum[p]

\* C24: in the network-mode rental chain the pre-resolved chain is used
\* exactly when the ride entry of the rental station and the station entry of
\* the ride's destination are both present; otherwise the chain is
\* recomputed with the rental station as the origin of the next step.
ChainUsedIffBothCached ==
    [][\A r \in Resolvers :
          (npc[r] = "resolve_rental_chain"
              /\ npc'[r] \notin {"resolve_rental_chain", "raised"}
              /\ nret'[r] # PyStr(NO_RENTAL_STATION)) =>
             /\ rental_stored'[r] <=> (rental # NoTime /\ station_rental # NoTime)
             /\ ~ rental_stored'[r] => npc'[r] = "resolve_destination_and_nearest"]_vars

\* C25, as stated: within one network-mode point the legs are measured in
\* the order walk to the rental station (rental modes, uncached chain only),
\* mode leg, final walk; the walk to the rental station is not measured when
\* the rental chain was a cache hit.
StartWalkFirstUncachedOnly ==
    \A r \in Resolvers :
        (kind # "walk" /\ npc[r] = "done" /\ nret[r] = PyStr("success")
            /\ r \notin presentAtStart) =>
           legOrder[r] =
               (IF kind = "rental" /\ ~ rental_stored[r]
                THEN <<"walk_start">> ELSE <<>>)
               \o (IF rental_stored[r] THEN <<>> ELSE <<"mode">>)
               \o (IF travel_time_walk[r] = NoTime THEN <<"walk_final">> ELSE <<>>)

\* C25, amended: within one network-mode point the legs are measured one
\* after another in the order mode leg (not on a rental chain cache hit),
\* walk from the origin to the rental station (rental modes, also on a cache
\* hit), final walk (only when no cached walk was found).
LegsInSourceOrder ==
    \A r \in Resolvers :
        (kind # "walk" /\ npc[r] = "done" /\ nret[r] = PyStr("success")
            /\ r \notin presentAtStart) =>
           legOrder[r] =
               (IF rental_stored[r] THEN <<>> ELSE <<"mode">>)
               \o (IF kind = "rental" THEN <<"walk_start">> ELSE <<>>)
               \o (IF travel_time_walk[r] = NoTime THEN <<"walk_final">> ELSE <<>>)

\* one point measured all three legs and another, with the rental chain
\* from the cache, measured the walk to the rental station alone
FreshChainAndCachedChain ==
    \E r, q \in Resolvers :
        /\ kind = "rental"
        /\ npc[r] = "done" /\ nret[r] = PyStr("success")
        /\ legOrder[r] = <<"mode", "walk_start", "walk_final">>
        /\ npc[q] = "done" /\ nret[q] = PyStr("success")
        /\ rental_stored[q] /\ legOrder[q] = <<"walk_start">>

\* C26: evaluate_best_candidate returns the triple of the candidate with
\* the minimum score among the candidates it scored: destination, access
\* station and walk time all belong to that one candidate.
BestTripleOfOneCandidate ==
    (ec_pc = "done" /\ ec_result.scored # {}) =>
        LET best == ec_result.best_destination
        IN  /\ best \in ec_result.scored
            /\ \A j \in ec_result.scored :
                   ec_candidates[best].score <= ec_candidates[j].score
            /\ ec_result.best_nearest = best
            /\ ec_result.best_walking = ec_candidates[best].walk

\* C27: in point mode (performance off) the pair (radial_point, total) of
\* every radial point whose resolution produced a total, a total of 0
\* included, is in the center's aggregate once the run has stored.
EveryTotalAppended ==
    ppc = "stored" =>
        \A i \in 1..Len(point_results) :
            LET v == point_results[i].val
            IN  (v.type = "tuple" /\ v.p # 0 /\ v.rtype = "float") =>
                    \E j \in 1..Len(point_isochrones) :
                        point_isochrones[j] = <<v.p, v.n>>

\* C28: after the cluster-dedup step, for every candidate set and every
\* random choice, no two returned sample points lie within 100 m of each
\* other and every group of mutually close candidates keeps a point.
DedupSeparatesAndCovers ==
    dd_pc = "returned" =>
        /\ \A i, j \in keep_points : ~ Close(dd_points, i, j)
        /\ \A group \in SUBSET DOMAIN dd_points :
               (Cardinality(group) > 1
                   /\ \A i, j \in group : i # j => Close(dd_points, i, j))
               => group \cap keep_points # {}

\* C29: every call of set_cached_nearest terminates: no task waits for
\* DistanceCacheLock while the task that holds the lock (itself or another)
\* is waiting for that lock too.
NoWaitOnWaitingHolder ==
    \A w \in Writers :
        (wpc[w] = "enter" /\ wop[w] \in DistanceOps /\ DistanceCacheLock # 0) =>
            wpc[DistanceCacheLock] = "body"

\* C30: the gate leaks no coordination primitive: however a send_request
\* call ends (return, exception, cancellation), it holds neither RateLock nor
\* a permit afterwards: the permits taken are those of the calls awaiting
\* their POST, and RateLock is held only by a call sleeping for the spacing.
GatePrimitivesReleased ==
    /\ SEMAPHORE_PERMITS - OJP_SEMAPHORE =
           Cardinality({c \in Callers : gpc[c] = "awaitPost"})
    /\ RateLock # 0 => gpc[RateLock] = "sleeping"

\* one call was cancelled after its POST had started, one ended with an
\* exception, and a third holds the only permit taken
PermitTakenAfterCancelAndRaise ==
    \E c, d, e \in Callers :
        /\ gpc[c] = "cancelled" /\ post[c] \in {"running", "finished", "failed"}
        /\ gpc[d] = "raised"
        /\ gpc[e] = "awaitPost"
        /\ OJP_SEMAPHORE = SEMAPHORE_PERMITS - 1
        /\ RateLock = 0

====
